---- MODULE Spec2Model ----
(***************************************************************************)
(* A model of gke-windows-builder: the orchestrator of main.go (process,   *)
(* buildSingleArchContainers, buildSingleArchContainer,                    *)
(* buildMultiArchContainer, shutdownBuildServers) together with the parts  *)
(* of builder/remote.go it drives (FindExistingInstance, NewServer).       *)
(*                                                                         *)
(* Every call that leaves the process (compute API, WinRM, bucket) is an   *)
(* environment step whose result is chosen nondeterministically.           *)
(***************************************************************************)
EXTENDS Integers, Sequences, FiniteSets, TLC

\* ------------------------------------------------------------------ bounds
\* largest number of entries of pickedVersionMap that is explored
MaxPicked == 2
\* largest number of matching instances that exist before the run starts
MaxExisting == 1

\* --------------------------------------------------------- program values
\* versionMap of main.go: version label -> image family
versionMap ==
  [v \in {"2004", "20H2", "ltsc2019"} |->
     CASE v = "2004" -> "family/windows-2004-core"
       [] v = "20H2" -> "family/windows-20h2-core"
       [] v = "ltsc2019" -> "family/windows-2019-core-for-containers"]

\* the entry main adds under --testonly-test-obsolete-versions
obsoleteVersionMap ==
  [v \in {"1809"} |-> "family/windows-1809-core-for-containers"]

\* every entry a pickedVersionMap can hold
allVersionMap ==
  [v \in (DOMAIN versionMap) \cup (DOMAIN obsoleteVersionMap) |->
     IF v \in DOMAIN versionMap THEN versionMap[v] ELSE obsoleteVersionMap[v]]

Versions == DOMAIN allVersionMap

\* the maps explored are {ltsc2019}, {ltsc2019, 1809}, {ltsc2019, 1809, 2004},
\* ...: the tasks treat every label alike, so one map of each size is enough
PickOrder == <<"ltsc2019", "1809", "2004", "20H2">>
PickedMaps == {{PickOrder[k] : k \in 1..n} : n \in 1..MaxPicked}

\* the --container-image-name flag
containerImageName == "image:tag"

\* names of the instances that exist before the run
ExistingNames == <<"pre-1", "pre-2", "pre-3">>
\* the listings explored: none, pre-1, pre-1 and pre-2, ...
ExistingPools == {{ExistingNames[k] : k \in 1..n} : n \in 0..MaxExisting}

\* name of the instance a task creates: prefix + uuid, unique per call
NewInstanceName(v) ==
  CASE v = "2004" -> "new-2004"
    [] v = "20H2" -> "new-20H2"
    [] v = "ltsc2019" -> "new-ltsc2019"
    [] v = "1809" -> "new-1809"

\* ------------------------------------------------------------ data shapes
\* s == nil
NoServer == [inst |-> "", folder |-> ""]
\* a populated *builder.Server: the instance and its own workspace folder
Server(inst, v) == [inst |-> inst, folder |-> v]

\* err == nil
NoErr == [api |-> FALSE, code |-> 0, msg |-> <<>>]
\* an error that is not a *googleapi.Error; the program only logs such an
\* error and compares it with nil, so one value stands for all of them
PlainErr == [api |-> FALSE, code |-> 0, msg |-> <<"error">>]
\* a *googleapi.Error with its Code and its Message (a sequence of words)
ApiErr(code, msg) == [api |-> TRUE, code |-> code, msg |-> msg]

\* builderServerStatus; ver tags the outcome with the task that produced it
Status(v, s, err) == [ver |-> v, s |-> s, err |-> err]
NoStatus == Status("", NoServer, NoErr)

\* no remote command in flight
NoCmd == [server |-> 0, args |-> <<>>]

\* strings.Contains on sequences of words
StringsContains(s, sub) ==
  \E k \in 0..(Len(s) - Len(sub)) : SubSeq(s, k + 1, k + Len(sub)) = sub

\* strings.Contains with its arguments exchanged
isImageNotFoundErrSwapped(err, imageFamily) ==
  err.api /\ err.code = 404 /\ StringsContains(<<imageFamily>>, err.msg)

\* isImageNotFoundErr of main.go
isImageNotFoundErr(err, imageFamily) ==
  err.api /\ err.code = 404 /\ StringsContains(err.msg, <<imageFamily>>)

\* the errors Instances.Insert can return for image family fam
InsertErrors(fam) ==
  { ApiErr(404, <<"The resource", fam, "was not found">>),
    ApiErr(404, <<"The resource", "network", "was not found">>),
    ApiErr(403, <<"Permission denied on", fam>>) }

\* ------------------------------------------------------------------ state
VARIABLES
  pickedVersionMap,      \* keys of the map process() is called with
  reuseBuilderInstances, \* value of --reuse-builder-instances
  instances,             \* names of the instances the listing filter matches
  created,               \* names of the instances this run has created
  pc,                    \* position of the main goroutine
  tpc,                   \* position of each build goroutine
  ts,                    \* the *builder.Server each build goroutine holds
  tout,                  \* value returned by buildSingleArchContainer
  newServerErr,          \* error returned by the task's newInstance call
  ch,                    \* the buffered channel of builderServerStatus
  wg,                    \* counter of the sync.WaitGroup
  chLen,                 \* chLen of buildSingleArchContainers
  bss,                   \* the slice process() owns
  idx,                   \* position of the range loop of buildMultiArchContainer
  isManifestCreated,     \* isManifestCreated of buildMultiArchContainer
  cmd,                   \* manifest command being executed on a server
  manifestLog,           \* manifest commands that have returned
  td,                    \* teardown goroutine of each element of bss
  procErr                \* error returned by process()

\* the variables of the orchestrator (process() and its goroutines)
orchVars == <<pickedVersionMap, reuseBuilderInstances, instances, created, pc,
              tpc, ts, tout, newServerErr, ch, wg, chLen, bss, idx,
              isManifestCreated, cmd, manifestLog, td, procErr>>

\* main() up to the call of process()
VARIABLES
  mItems,       \* the entries the --versions flag was written from
  mSel,         \* *pickedVersions: the text of the --versions flag
  mObsolete,    \* *testObsoleteVersion
  mSkipFw,      \* *skipFirewallCheck
  mInternal,    \* *useInternalIP
  mpc,          \* position of main()
  mPicked,      \* keys of pickedVersionMap of main()
  mCalls,       \* the calls main() has made to storage and compute, in order
  mExit         \* exit status of the process, -1 while it runs

mainFlowVars == <<mItems, mSel, mObsolete, mSkipFw, mInternal, mpc, mPicked,
                  mCalls, mExit>>

\* one call of RemoteWindowsServer.RunCommand or RemoteWindowsServer.Copy
VARIABLES
  rOp,          \* the method called
  rTimeout,     \* its timeout argument
  rpc,          \* position inside the call
  rCaller,      \* who called RunCommand: the test itself or copyViaBucket
  rCalls,       \* what the call has done outside the process, in order
  rBucketErr,   \* error returned by copyViaBucket
  rExit,        \* cmd.ExitCode() of the remote command, -1 before it ran
  rRet          \* value the method returned

remoteVars == <<rOp, rTimeout, rpc, rCaller, rCalls, rBucketErr, rExit, rRet>>

\* one call of RemoteWindowsServer.WaitForServerBeReady
VARIABLES
  wSetup,       \* setupTimeout, in sleeps of 10 s
  wNow,         \* time.Now() since the call, in sleeps of 10 s
  wpc,          \* position inside the call
  wProbes,      \* results of the probes made so far
  wRet          \* value the method returned

readyVars == <<wSetup, wNow, wpc, wProbes, wRet>>

\* the polling loop of Server.resetWindowsPassword
VARIABLES
  cNow,         \* time.Now() since the loop began, in sleeps of 2 s
  cpc,          \* position inside the loop
  cLines,       \* responses: the lines of the serial port output just read
  cIdx,         \* position of the range loop over responses
  cSeen,        \* the lines of responses the loop body has looked at
  cPolls,       \* number of GetSerialPortOutput calls made
  cRet          \* value the method returned

passwordVars == <<cNow, cpc, cLines, cIdx, cSeen, cPolls, cRet>>

\* one run of buildSingleArchContainer, and what process() makes of it
VARIABLES
  kInst,        \* names of the RUNNING instances the listing filter matches
  kpc,          \* position of the task
  kS,           \* s: the server of the task
  kErr,         \* err: the error variable of the task
  kLog,         \* the steps the task has made, each with the error it got
  kOut,         \* the builderServerStatus the task returned
  kExit         \* exit status of the run, -1 while it runs

taskFlowVars == <<kInst, kpc, kS, kErr, kLog, kOut, kExit>>

\* concurrent runs of NewGCSBucketIfNotExists on one bucket name
VARIABLES
  bExists,      \* the bucket exists
  bpc,          \* position of each run
  bRet          \* what each run returned

bucketVars == <<bExists, bpc, bRet>>

\* NewInstanceNetworkConfig, the URL functions and CheckProjectFirewalls
VARIABLES
  nNetworkProject, \* *networkProject: the --network-project flag
  nSubnetProject,  \* *subnetworkProject: the --subnetwork-project flag
  nSubnet,         \* *subnetwork: the --subnetwork flag
  nAllowed,        \* the (project, network URL) pairs winRMIngressIsAllowed accepts
  npc,             \* position
  nCfg,            \* the InstanceNetworkConfig built from the flags
  nProjUrls,       \* result of ProjectNetworkUrls
  nInstUrls,       \* result of InstanceNetworkUrls
  nLog,            \* the (project, network URL) pairs the preflight has tested
  nRet             \* what CheckProjectFirewalls returned

netVars == <<nNetworkProject, nSubnetProject, nSubnet, nAllowed, npc, nCfg,
            nProjUrls, nInstUrls, nLog, nRet>>

\* one call of winRMIngressIsAllowed
VARIABLES
  fUrl,         \* networkUrl
  fListOk,      \* service.Firewalls.List(...).Do() succeeds
  fRules,       \* firewalls.Items
  fpc,          \* position
  fResult       \* what the call returned

ruleVars == <<fUrl, fListOk, fRules, fpc, fResult>>

\* one credential exchange of a Server: resetPasswordAndPopulateRemoteServer
VARIABLES
  xMeta,        \* the metadata items of the instance, as GCE holds them
  xLocal,       \* s.instance.Metadata.Items
  xInst,        \* s.instance.NetworkInterfaces
  xInternal,    \* useInternalIP
  xReq,         \* dstring: the request of this exchange, numbered
  xpc,          \* position
  xNow,         \* time.Now() since waitForComputeOperation began, in seconds
  xPolls,       \* the ZoneOperations.Get calls made, each with its result
  xOpRet,       \* what waitForComputeOperation returned
  xPassword,    \* password, "" before resetWindowsPassword returned one
  xHandle,      \* s.RemoteWindowsServer
  xRet          \* what resetPasswordAndPopulateRemoteServer returned

exchangeVars == <<xMeta, xLocal, xInst, xInternal, xReq, xpc, xNow, xPolls,
                 xOpRet, xPassword, xHandle, xRet>>

vars == <<orchVars, mainFlowVars, remoteVars, readyVars, passwordVars,
         taskFlowVars, bucketVars, netVars, ruleVars,
    exchangeVars>>

\* what no step of the orchestrator changes: the flags, and the variables
\* of the other specifications
env == <<pickedVersionMap, reuseBuilderInstances, mainFlowVars, remoteVars,
         readyVars, passwordVars, taskFlowVars, bucketVars, netVars, ruleVars,
    exchangeVars>>
taskVars == <<tpc, ts, tout, newServerErr>>
mainVars == <<pc, chLen, bss, idx, isManifestCreated, cmd, manifestLog, td,
              procErr>>

\* an error of the remote package: what failed, and the exit code it names
E(kind, code) == [kind |-> kind, code |-> code]

\* the nil error
Nil == E("nil", 0)

\* no call has returned anything yet
NoRet == [done |-> FALSE, err |-> Nil]

\* no InstanceNetworkConfig has been built yet
NoCfg ==
  [Network |-> "", NetworkProject |-> "", Subnet |-> "", SubnetProject |-> "",
   Region |-> ""]

\* what CheckProjectFirewalls returns: nil, or an error with the project, the
\* network URL and the command its message names
CheckRet(done, err, project, url, command) ==
  [done |-> done, err |-> err, project |-> project, url |-> url,
   command |-> command]

\* CheckProjectFirewalls has not returned
NoCheck == CheckRet(FALSE, "", "", <<>>, <<>>)

\* main() is not running
MainFlowIdle ==
  /\ mItems = <<>>
  /\ mSel = <<>>
  /\ mObsolete = FALSE
  /\ mSkipFw = FALSE
  /\ mInternal = FALSE
  /\ mpc = "idle"
  /\ mPicked = {}
  /\ mCalls = <<>>
  /\ mExit = -1

\* no RunCommand or Copy call is running
RemoteIdle ==
  /\ rOp = ""
  /\ rTimeout = 0
  /\ rpc = "idle"
  /\ rCaller = ""
  /\ rCalls = <<>>
  /\ rBucketErr = Nil
  /\ rExit = -1
  /\ rRet = NoRet

\* no WaitForServerBeReady call is running
ReadyIdle ==
  /\ wSetup = 0
  /\ wNow = 0
  /\ wpc = "idle"
  /\ wProbes = <<>>
  /\ wRet = NoRet

\* no network configuration is being resolved
NetIdle ==
  /\ nNetworkProject = ""
  /\ nSubnetProject = ""
  /\ nSubnet = ""
  /\ nAllowed = {}
  /\ npc = "idle"
  /\ nCfg = NoCfg
  /\ nProjUrls = <<>>
  /\ nInstUrls = <<>>
  /\ nLog = <<>>
  /\ nRet = NoCheck

\* no winRMIngressIsAllowed call is running
RuleIdle ==
  /\ fUrl = <<>>
  /\ fListOk = FALSE
  /\ fRules = <<>>
  /\ fpc = "idle"
  /\ fResult = ""

\* no NewGCSBucketIfNotExists call is running
BucketIdle ==
  /\ bExists = FALSE
  /\ bpc = <<>>
  /\ bRet = <<>>

\* no single build task is being followed
TaskIdle ==
  /\ kInst = {}
  /\ kpc = "idle"
  /\ kS = NoServer
  /\ kErr = NoErr
  /\ kLog = <<>>
  /\ kOut = NoStatus
  /\ kExit = -1

\* the zero value of RemoteWindowsServer
NoHandle == [Hostname |-> "", Password |-> ""]

\* no credential exchange is running
ExchangeIdle ==
  /\ xMeta = <<>>
  /\ xLocal = <<>>
  /\ xInst = <<>>
  /\ xInternal = FALSE
  /\ xReq = 0
  /\ xpc = "idle"
  /\ xNow = 0
  /\ xPolls = <<>>
  /\ xOpRet = NoRet
  /\ xPassword = ""
  /\ xHandle = NoHandle
  /\ xRet = NoRet

\* none of the specifications of a single function or protocol is running
PartsIdle == TaskIdle /\ BucketIdle /\ NetIdle /\ RuleIdle /\ ExchangeIdle

\* no resetWindowsPassword call is running
PasswordIdle ==
  /\ cNow = 0
  /\ cpc = "idle"
  /\ cLines = <<>>
  /\ cIdx = 0
  /\ cSeen = <<>>
  /\ cPolls = 0
  /\ cRet = NoRet

\* len(pickedVersionMap)
NumPicked == Cardinality(pickedVersionMap)

\* cap(ch) when make() is called without a size
ChanCapUnbuffered(n) == 0

\* cap(ch): make(chan builderServerStatus, len(pickedVersionMap))
ChanCap(n) == n

\* `reuseBuilderInstances != nil`: flag.Bool never returns a nil pointer
reuseFlagIsSet == TRUE

Init ==
  /\ MainFlowIdle /\ RemoteIdle /\ ReadyIdle /\ PasswordIdle /\ PartsIdle
  /\ pickedVersionMap \in PickedMaps
  /\ reuseBuilderInstances \in BOOLEAN
  /\ instances \in ExistingPools
  /\ created = {}
  /\ pc = "launch"
  /\ tpc = [v \in Versions |-> "idle"]
  /\ ts = [v \in Versions |-> NoServer]
  /\ tout = [v \in Versions |-> NoStatus]
  /\ newServerErr = [v \in Versions |-> NoErr]
  /\ ch = <<>>
  /\ wg = 0
  /\ chLen = 0
  /\ bss = <<>>
  /\ idx = 0
  /\ isManifestCreated = FALSE
  /\ cmd = NoCmd
  /\ manifestLog = <<>>
  /\ td = <<>>
  /\ procErr = ""

\* process() is not running
OrchIdle ==
  /\ pickedVersionMap = {}
  /\ reuseBuilderInstances = FALSE
  /\ instances = {}
  /\ created = {}
  /\ pc = "idle"
  /\ tpc = [v \in Versions |-> "idle"]
  /\ ts = [v \in Versions |-> NoServer]
  /\ tout = [v \in Versions |-> NoStatus]
  /\ newServerErr = [v \in Versions |-> NoErr]
  /\ ch = <<>>
  /\ wg = 0
  /\ chLen = 0
  /\ bss = <<>>
  /\ idx = 0
  /\ isManifestCreated = FALSE
  /\ cmd = NoCmd
  /\ manifestLog = <<>>
  /\ td = <<>>
  /\ procErr = ""

\* ------------------------------------------------- buildSingleArchContainer
\* a return that drops the server whenever there is an error
ReturnNilOnError(v, s, err) ==
  /\ tout' = [tout EXCEPT ![v] =
                Status(v, IF err # NoErr THEN NoServer ELSE s, err)]
  /\ tpc' = [tpc EXCEPT ![v] = "send"]

\* the task returns: its result is what the goroutine will send
Return(v, s, err) ==
  /\ tout' = [tout EXCEPT ![v] = Status(v, s, err)]
  /\ tpc' = [tpc EXCEPT ![v] = "send"]

\* wg.Add(1); go func(ver, imageFamily)
Launch(v) ==
  /\ pc = "launch"
  /\ v \in pickedVersionMap
  /\ tpc[v] = "idle"
  /\ wg' = wg + 1
  /\ tpc' = [tpc EXCEPT ![v] = "find"]
  /\ UNCHANGED <<env, instances, created, ts, tout, newServerErr, ch, mainVars>>

\* FindExistingInstance: nil on a failed or empty listing or when
\* existingServer fails, else a server on one RUNNING instance picked at random
LookForExisting(v) ==
  /\ tpc[v] = "find"
  /\ IF reuseFlagIsSet
       THEN \E s \in {NoServer} \cup {Server(n, v) : n \in instances} :
              /\ ts' = [ts EXCEPT ![v] = s]
              /\ tpc' = [tpc EXCEPT ![v] =
                           IF s = NoServer THEN "newServer" ELSE "wait"]
       ELSE /\ ts' = ts
            /\ tpc' = [tpc EXCEPT ![v] = "newServer"]
  /\ UNCHANGED <<env, instances, created, tout, newServerErr, ch, wg, mainVars>>

\* NewServer up to the end of newInstance, failing: no server is returned
NewInstanceFails(v) ==
  /\ tpc[v] = "newServer"
  /\ \/ \* newGCEService fails, or the insert operation does not complete
        /\ newServerErr' = [newServerErr EXCEPT ![v] = PlainErr]
        /\ Return(v, NoServer, PlainErr)
        /\ UNCHANGED <<instances, created>>
     \/ \E e \in InsertErrors(allVersionMap[v]) :
          /\ newServerErr' = [newServerErr EXCEPT ![v] = e]
          /\ IF isImageNotFoundErr(e, allVersionMap[v])
               THEN Return(v, NoServer, NoErr)
               ELSE Return(v, NoServer, e)
          /\ UNCHANGED <<instances, created>>
     \/ \* the insert operation is DONE, Instances.Get then fails
        LET e == ApiErr(503, <<"backend error">>) IN
          /\ newServerErr' = [newServerErr EXCEPT ![v] = e]
          /\ Return(v, NoServer, e)
          /\ instances' = instances \cup {NewInstanceName(v)}
          /\ created' = created \cup {NewInstanceName(v)}
  /\ UNCHANGED <<env, ts, ch, wg, mainVars>>

\* newInstance succeeds: the instance exists and is RUNNING
NewInstanceOk(v) ==
  /\ tpc[v] = "newServer"
  /\ instances' = instances \cup {NewInstanceName(v)}
  /\ created' = created \cup {NewInstanceName(v)}
  /\ ts' = [ts EXCEPT ![v] = Server(NewInstanceName(v), v)]
  /\ tpc' = [tpc EXCEPT ![v] = "resetPassword"]
  /\ UNCHANGED <<env, tout, newServerErr, ch, wg, mainVars>>

\* resetPasswordAndPopulateRemoteServer inside NewServer: on an error
\* NewServer returns (nil, err)
ResetPassword(v) ==
  /\ tpc[v] = "resetPassword"
  /\ \/ /\ tpc' = [tpc EXCEPT ![v] = "wait"]
        /\ UNCHANGED <<ts, tout>>
     \/ \* resetWindowsPassword or getIP returns an error
        /\ Return(v, NoServer, PlainErr)
        /\ ts' = [ts EXCEPT ![v] = NoServer]
  /\ UNCHANGED <<env, instances, created, newServerErr, ch, wg, mainVars>>

\* r.WaitForServerBeReady(*setupTimeout)
WaitForServerBeReady(v) ==
  /\ tpc[v] = "wait"
  /\ \/ /\ tpc' = [tpc EXCEPT ![v] = "copy"]
        /\ tout' = tout
     \/ Return(v, ts[v], PlainErr)
  /\ UNCHANGED <<env, instances, created, ts, newServerErr, ch, wg, mainVars>>

\* r.Copy(*workspacePath, *copyTimeout)
Copy(v) ==
  /\ tpc[v] = "copy"
  /\ \/ /\ tpc' = [tpc EXCEPT ![v] = "build"]
        /\ tout' = tout
     \/ Return(v, ts[v], PlainErr)
  /\ UNCHANGED <<env, instances, created, ts, newServerErr, ch, wg, mainVars>>

\* buildSingleArchContainerOnRemote
BuildOnRemote(v) ==
  /\ tpc[v] = "build"
  /\ \/ Return(v, ts[v], NoErr)
     \/ Return(v, ts[v], PlainErr)
  /\ UNCHANGED <<env, instances, created, ts, newServerErr, ch, wg, mainVars>>

\* ch <- buildSingleArchContainer(...): blocks while the buffer is full
Send(v) ==
  /\ tpc[v] = "send"
  /\ Len(ch) < ChanCap(NumPicked)
  /\ ch' = Append(ch, tout[v])
  /\ tpc' = [tpc EXCEPT ![v] = "sent"]
  /\ UNCHANGED <<env, instances, created, ts, tout, newServerErr, wg, mainVars>>

\* the deferred wg.Done()
Done(v) ==
  /\ tpc[v] = "sent"
  /\ wg' = wg - 1
  /\ tpc' = [tpc EXCEPT ![v] = "done"]
  /\ UNCHANGED <<env, instances, created, ts, tout, newServerErr, ch, mainVars>>

\* ------------------------------------------------ buildSingleArchContainers
\* a join that does not wait for the goroutines and takes what has arrived
WaitGroupWaitNoJoin ==
  /\ pc = "launch"
  /\ \A v \in pickedVersionMap : tpc[v] # "idle"
  /\ chLen' = Len(ch)
  /\ pc' = "drain"
  /\ UNCHANGED <<env, instances, created, taskVars, ch, wg, bss, idx,
                 isManifestCreated, cmd, manifestLog, td, procErr>>

\* wg.Wait(); chLen := len(ch); the discrepancy check
WaitGroupWait ==
  /\ pc = "launch"
  /\ \A v \in pickedVersionMap : tpc[v] # "idle"
  /\ wg = 0
  /\ chLen' = Len(ch)
  /\ IF Len(ch) # NumPicked
       THEN /\ procErr' = "discrepancy"
            /\ pc' = "shutdown"
       ELSE /\ procErr' = procErr
            /\ pc' = "drain"
  /\ UNCHANGED <<env, instances, created, taskVars, ch, wg, bss, idx,
                 isManifestCreated, cmd, manifestLog, td>>

\* *bss = append(*bss, <-ch): the receive blocks on an empty channel
Drain ==
  /\ pc = "drain"
  /\ Len(bss) < chLen
  /\ ch # <<>>
  /\ bss' = Append(bss, Head(ch))
  /\ ch' = Tail(ch)
  /\ UNCHANGED <<env, instances, created, taskVars, wg, pc, chLen, idx,
                 isManifestCreated, cmd, manifestLog, td, procErr>>

\* an error scan that looks at the first status only
FirstBuildError(b) == b # <<>> /\ b[1].err # NoErr

\* for _, bs := range *bss { if bs.err != nil ...
AnyBuildError(b) == \E k \in 1..Len(b) : b[k].err # NoErr

\* the error scan that ends buildSingleArchContainers, and the return to
\* process(), which calls buildMultiArchContainer only when it got no error
ScanErrors ==
  /\ pc = "drain"
  /\ Len(bss) = chLen
  /\ IF AnyBuildError(bss)
       THEN /\ procErr' = "build"
            /\ pc' = "shutdown"
            /\ idx' = idx
       ELSE /\ procErr' = procErr
            /\ pc' = "manifest"
            /\ idx' = 1
  /\ UNCHANGED <<env, instances, created, taskVars, ch, wg, chLen, bss,
                 isManifestCreated, cmd, manifestLog, td>>

\* --------------------------------------------------- buildMultiArchContainer
\* every order in which `range` can visit the keys of a map
RangeOrders(keys) ==
  {o \in [1..Cardinality(keys) -> keys] :
     \A a, b \in 1..Cardinality(keys) : o[a] = o[b] => a = b}

RECURSIVE constructArgsFromSecond(_)
\* a loop that misses the first key visited
constructArgsFromSecond(order) ==
  IF Len(order) <= 1
    THEN <<containerImageName>>
    ELSE constructArgsFromSecond(SubSeq(order, 1, Len(order) - 1))
           \o <<" ", containerImageName, "_", order[Len(order)]>>

RECURSIVE constructArgsOfManifestCreateCommand(_)
\* args := name; for ver := range map { args += Sprint(" ", name, "_", ver) }
\* order is the order in which range visits the keys
constructArgsOfManifestCreateCommand(order) ==
  IF order = <<>>
    THEN <<containerImageName>>
    ELSE constructArgsOfManifestCreateCommand(SubSeq(order, 1, Len(order) - 1))
           \o <<" ", containerImageName, "_", order[Len(order)]>>

\* the versions whose status carries a server
BuiltVersions == {bss[k].ver : k \in {j \in 1..Len(bss) : bss[j].s # NoServer}}

\* the map buildMultiArchContainer passes on: pickedVersionMap
ManifestArgVersions == pickedVersionMap

\* a loop condition that does not look at isManifestCreated
ShouldIssueOnEveryServer(bs, isCreated) == bs.s # NoServer

\* if bs.s != nil && !isManifestCreated
ShouldIssue(bs, isCreated) == bs.s # NoServer /\ ~isCreated

\* a final check that never reports the missing manifest
ManifestNeverFailed(isCreated) == FALSE

\* if !isManifestCreated { return error }
ManifestFailed(isCreated) == ~isCreated

\* createMultiArchContainerOnRemote is called on bss[idx]
ManifestIssue ==
  /\ pc = "manifest"
  /\ cmd = NoCmd
  /\ idx <= Len(bss)
  /\ ShouldIssue(bss[idx], isManifestCreated)
  /\ \E order \in RangeOrders(ManifestArgVersions) :
       cmd' = [server |-> idx,
               args |-> constructArgsOfManifestCreateCommand(order)]
  /\ UNCHANGED <<env, instances, created, taskVars, ch, wg, pc, chLen, bss,
                 idx, isManifestCreated, manifestLog, td, procErr>>

\* the command returns: an error is logged, success sets isManifestCreated
ManifestReturn ==
  /\ pc = "manifest"
  /\ cmd # NoCmd
  /\ \E ok \in BOOLEAN :
       /\ manifestLog' = Append(manifestLog, [server |-> cmd.server, ok |-> ok])
       /\ isManifestCreated' = (isManifestCreated \/ ok)
  /\ cmd' = NoCmd
  /\ idx' = idx + 1
  /\ UNCHANGED <<env, instances, created, taskVars, ch, wg, pc, chLen, bss,
                 td, procErr>>

\* an element of bss the loop passes over
ManifestSkip ==
  /\ pc = "manifest"
  /\ cmd = NoCmd
  /\ idx <= Len(bss)
  /\ ~ShouldIssue(bss[idx], isManifestCreated)
  /\ idx' = idx + 1
  /\ UNCHANGED <<env, instances, created, taskVars, ch, wg, pc, chLen, bss,
                 isManifestCreated, cmd, manifestLog, td, procErr>>

\* the end of the loop and the return to process()
ManifestEnd ==
  /\ pc = "manifest"
  /\ cmd = NoCmd
  /\ idx > Len(bss)
  /\ procErr' = IF ManifestFailed(isManifestCreated) THEN "manifest" ELSE procErr
  /\ pc' = "shutdown"
  /\ UNCHANGED <<env, instances, created, taskVars, ch, wg, chLen, bss, idx,
                 isManifestCreated, cmd, manifestLog, td>>

\* ------------------------------------------------------ shutdownBuildServers
\* a teardown that leaves out the servers whose build failed
TeardownEligibleOnSuccess(bs) == bs.s # NoServer /\ bs.err = NoErr

\* if bsc.s != nil
TeardownEligible(bs) == bs.s # NoServer

\* the deferred call of process(): one goroutine per status with a server
ShutdownStart ==
  /\ pc = "shutdown"
  /\ td' = [k \in 1..Len(bss) |->
              [st |-> IF TeardownEligible(bss[k]) THEN "spawned" ELSE "skip",
               deletes |-> 0, cleans |-> 0, res |-> ""]]
  /\ pc' = "teardown"
  /\ UNCHANGED <<env, instances, created, taskVars, ch, wg, chLen, bss, idx,
                 isManifestCreated, cmd, manifestLog, procErr>>

\* a teardown that deletes the instance whatever the mode
TeardownOpAlwaysDelete(reuse) == "delete"

\* shutdownBuildServers: CleanFolder in reuse mode, DeleteInstance otherwise
TeardownOp(reuse) == IF reuse THEN "clean" ELSE "delete"

\* the goroutine calls CleanFolder in reuse mode, DeleteInstance otherwise
TeardownIssue(k) ==
  /\ pc = "teardown"
  /\ k \in 1..Len(td)
  /\ td[k].st = "spawned"
  /\ td' = [td EXCEPT ![k] =
              IF TeardownOp(reuseBuilderInstances) = "clean"
                THEN [@ EXCEPT !.st = "running", !.cleans = @ + 1]
                ELSE [@ EXCEPT !.st = "running", !.deletes = @ + 1]]
  /\ UNCHANGED <<env, instances, created, taskVars, ch, wg, pc, chLen, bss,
                 idx, isManifestCreated, cmd, manifestLog, procErr>>

\* a teardown whose failure becomes the error of the run
TeardownErrorEscalated(err, ok) == IF ok THEN err ELSE "teardown"

\* the error of the run after a teardown call returned: the result of
\* CleanFolder is dropped and DeleteInstance only logs
TeardownError(err, ok) == err

\* the call returns and the deferred wg.Done() runs; a delete that
\* succeeded has removed the instance
TeardownReturn(k) ==
  /\ pc = "teardown"
  /\ k \in 1..Len(td)
  /\ td[k].st = "running"
  /\ \E ok \in BOOLEAN :
       /\ td' = [td EXCEPT ![k].st = "returned",
                           ![k].res = IF ok THEN "ok" ELSE "failed"]
       /\ instances' = IF ok /\ td[k].deletes = 1
                         THEN instances \ {bss[k].s.inst}
                         ELSE instances
       /\ procErr' = TeardownError(procErr, ok)
  /\ UNCHANGED <<env, created, taskVars, ch, wg, pc, chLen, bss,
                 idx, isManifestCreated, cmd, manifestLog>>

\* wg.Wait() of shutdownBuildServers, then process() returns to main
ShutdownWait ==
  /\ pc = "teardown"
  /\ \A k \in 1..Len(td) : td[k].st \in {"skip", "returned"}
  /\ pc' = "exit"
  /\ UNCHANGED <<env, instances, created, taskVars, ch, wg, chLen, bss, idx,
                 isManifestCreated, cmd, manifestLog, td, procErr>>

\* exit status of main: log.Fatalf when process() returned an error
ExitCode == IF procErr = "" THEN 0 ELSE 1

\* ------------------------------------------------------------ specification
Next ==
  \/ \E v \in Versions : Launch(v)
  \/ \E v \in Versions : LookForExisting(v)
  \/ \E v \in Versions : NewInstanceFails(v)
  \/ \E v \in Versions : NewInstanceOk(v)
  \/ \E v \in Versions : ResetPassword(v)
  \/ \E v \in Versions : WaitForServerBeReady(v)
  \/ \E v \in Versions : Copy(v)
  \/ \E v \in Versions : BuildOnRemote(v)
  \/ \E v \in Versions : Send(v)
  \/ \E v \in Versions : Done(v)
  \/ WaitGroupWait
  \/ Drain
  \/ ScanErrors
  \/ ManifestIssue
  \/ ManifestReturn
  \/ ManifestSkip
  \/ ManifestEnd
  \/ ShutdownStart
  \/ \E k \in 1..MaxPicked : TeardownIssue(k)
  \/ \E k \in 1..MaxPicked : TeardownReturn(k)
  \/ ShutdownWait

Spec == Init /\ [][Next]_vars

\* ------------------------------------------------------------------ claims
\* the task of version v has returned its status
Returned(v) == tpc[v] \in {"send", "sent", "done"}

\* process() has left buildMultiArchContainer, which it entered because
\* no status carried an error
ManifestPhaseOver ==
  /\ pc \in {"shutdown", "teardown", "exit"}
  /\ Len(bss) = NumPicked
  /\ ~(\E k \in 1..Len(bss) : bss[k].err # NoErr)

\* indices of the statuses that carry a server, in scan order
HandleIdx == SelectSeq([k \in 1..Len(bss) |-> k], LAMBDA k : bss[k].s # NoServer)

\* the insert for v failed with the not-found error naming v's image family
FamilyNotFound(v) ==
  newServerErr[v] = ApiErr(404, <<"The resource", allVersionMap[v], "was not found">>)

RECURSIVE SplitOnSpace(_)
\* the space-separated words of an argument string
SplitOnSpace(s) ==
  IF s = <<>>
    THEN << <<>> >>
    ELSE LET rest == SplitOnSpace(Tail(s)) IN
           IF Head(s) = " "
             THEN << <<>> >> \o rest
             ELSE << <<Head(s)>> \o Head(rest) >> \o Tail(rest)

\* image:tag_<version>
SuffixedRef(v) == <<containerImageName, "_", v>>

\* number of times word w occurs among the words ws
Occurrences(ws, w) == Cardinality({k \in 1..Len(ws) : ws[k] = w})

\* C1: once a task has returned a status with an error, no manifest command
\* is ever issued and the process exits with a failure, whatever the other
\* tasks returned.
C1_FailFast ==
  (\E v \in pickedVersionMap : Returned(v) /\ tout[v].err # NoErr)
    => /\ cmd = NoCmd
       /\ manifestLog = <<>>
       /\ pc = "exit" => ExitCode # 0

C1_Witness ==
  /\ pc = "exit"
  /\ \E v, w \in pickedVersionMap :
       /\ tout[v].err # NoErr
       /\ tout[w].err = NoErr /\ tout[w].s # NoServer

\* C2: a task that has its status ready can always send it (the channel is
\* never full), each task's status is in the channel or in bss exactly once
\* after its send and never before, past the drain bss holds exactly N
\* statuses, while the orchestrator waits at the join some goroutine can
\* take a step, and at the drain the orchestrator itself can.
C2_ChannelJoinDrain ==
  /\ \A v \in pickedVersionMap : tpc[v] = "send" => ENABLED Send(v)
  /\ \A v \in pickedVersionMap :
       Cardinality({k \in 1..Len(ch) : ch[k].ver = v})
         + Cardinality({k \in 1..Len(bss) : bss[k].ver = v})
       = IF tpc[v] \in {"sent", "done"} THEN 1 ELSE 0
  /\ pc \in {"manifest", "shutdown", "teardown", "exit"}
       => Len(bss) = NumPicked /\ ch = <<>> /\ procErr # "discrepancy"
  /\ (pc = "launch" /\ ~ENABLED WaitGroupWait) =>
       \E v \in pickedVersionMap :
         \/ tpc[v] \in {"idle", "find", "newServer", "resetPassword", "wait",
                        "copy", "build", "sent"}
         \/ tpc[v] = "send" /\ ENABLED Send(v)
  /\ pc = "drain" => (ENABLED Drain \/ ENABLED ScanErrors)

C2_Witness ==
  /\ pc = "exit"
  /\ NumPicked >= 2
  /\ Len(bss) = NumPicked

\* C3: at the exit every instance this run created has had a teardown
\* operation issued and returned.
C3_CreatedInstancesTornDown ==
  pc = "exit" =>
    \A n \in created :
      \E k \in 1..Len(td) :
        /\ bss[k].s.inst = n
        /\ td[k].st = "returned"
        /\ td[k].deletes + td[k].cleans >= 1

\* C4: no status gets more than one teardown operation, and at the exit
\* each task's status that carries a server sits at exactly one place of bss
\* whose teardown operation was issued once and has returned.
C4_OneTeardownPerHandle ==
  /\ \A k \in 1..Len(td) : td[k].deletes + td[k].cleans <= 1
  /\ pc = "exit" =>
       \A v \in pickedVersionMap :
         tout[v].s # NoServer =>
           /\ Cardinality({k \in 1..Len(bss) : bss[k] = tout[v]}) = 1
           /\ \A k \in 1..Len(bss) :
                bss[k] = tout[v] =>
                  /\ td[k].st = "returned"
                  /\ td[k].deletes + td[k].cleans = 1

C4_Witness ==
  /\ pc = "exit"
  /\ \E k \in 1..Len(bss) :
       /\ bss[k].s # NoServer
       /\ bss[k].err # NoErr
       /\ td[k].st = "returned"

\* C5: while a teardown operation is running or has returned, every build
\* goroutine has finished.
C5_TeardownAfterJoin ==
  (\E k \in 1..Len(td) : td[k].st \in {"running", "returned"})
    => \A v \in pickedVersionMap : tpc[v] = "done"

C5_Witness ==
  /\ NumPicked >= 2
  /\ \E k \in 1..Len(td) : td[k].st = "running"

\* C6 as stated: with error-free statuses and at least one server, exactly
\* one manifest command is issued in the run, on the first server in scan
\* order.
C6_SingleManifestCommand ==
  (ManifestPhaseOver /\ HandleIdx # <<>>)
    => /\ Len(manifestLog) = 1
       /\ manifestLog[1].server = HandleIdx[1]

\* C6 amended: the manifest commands go to the servers in scan order, one
\* per server, starting with the first; a command is issued on the next
\* server exactly when all commands before it failed; none follows a
\* success; the run fails exactly when the command failed on every server.
C6_ManifestRetriesInScanOrder ==
  /\ Len(manifestLog) <= Len(HandleIdx)
  /\ \A j \in 1..Len(manifestLog) :
       /\ manifestLog[j].server = HandleIdx[j]
       /\ j < Len(manifestLog) => ~manifestLog[j].ok
  /\ cmd # NoCmd =>
       /\ \A j \in 1..Len(manifestLog) : ~manifestLog[j].ok
       /\ cmd.server = HandleIdx[Len(manifestLog) + 1]
  /\ (ManifestPhaseOver /\ HandleIdx # <<>>) =>
       /\ Len(manifestLog) >= 1
       /\ ~manifestLog[Len(manifestLog)].ok => Len(manifestLog) = Len(HandleIdx)
       /\ (procErr = "manifest") <=> ~manifestLog[Len(manifestLog)].ok

C6_Witness ==
  /\ ManifestPhaseOver
  /\ Len(manifestLog) = 2
  /\ ~manifestLog[1].ok
  /\ manifestLog[2].ok

\* C7: with error-free statuses the run succeeds exactly when a manifest
\* command succeeded; with no server among them no manifest command is
\* issued and the run fails.
C7_SuccessIffManifestCreated ==
  /\ (pc = "exit" /\ ManifestPhaseOver) =>
       ((ExitCode = 0) <=> (\E j \in 1..Len(manifestLog) : manifestLog[j].ok))
  /\ (ManifestPhaseOver /\ HandleIdx = <<>>) =>
       (manifestLog = <<>> /\ procErr = "manifest")
  /\ (pc = "manifest" /\ HandleIdx = <<>>) => (cmd = NoCmd /\ manifestLog = <<>>)

C7_Witness ==
  /\ pc = "exit"
  /\ ManifestPhaseOver
  /\ HandleIdx = <<>>
  /\ ExitCode = 1

\* C8 as stated: a version whose image family is not found returns neither
\* server nor error, and the run succeeds when no other version returned an
\* error.
C8_SkipThenSuccess ==
  \A v \in pickedVersionMap :
    FamilyNotFound(v) =>
      /\ tout[v] = Status(v, NoServer, NoErr)
      /\ (pc = "exit" /\ \A w \in pickedVersionMap \ {v} : tout[w].err = NoErr)
           => ExitCode = 0

\* C8 amended: a version whose image family is not found returns neither
\* server nor error and never makes the run fail: when no other version
\* returned an error, the run succeeds exactly when a manifest command
\* succeeded on the server of another version.
C8_SkipIsNotAnError ==
  \A v \in pickedVersionMap :
    FamilyNotFound(v) =>
      /\ tout[v] = Status(v, NoServer, NoErr)
      /\ (pc = "exit" /\ \A w \in pickedVersionMap \ {v} : tout[w].err = NoErr)
           => ((ExitCode = 0) <=>
                 \E j \in 1..Len(manifestLog) :
                   /\ manifestLog[j].ok
                   /\ bss[manifestLog[j].server].ver # v)

C8_Witness ==
  /\ pc = "exit"
  /\ ExitCode = 0
  /\ \E v \in pickedVersionMap : FamilyNotFound(v)

\* C9 as stated: the manifest command does not name the reference of a
\* version that was skipped because its image family was not found.
C9_SkippedVersionNotNamed ==
  cmd # NoCmd =>
    \A v \in pickedVersionMap :
      FamilyNotFound(v) => Occurrences(SplitOnSpace(cmd.args), SuffixedRef(v)) = 0

\* C9 amended: the manifest command names the reference of a skipped
\* version exactly once, like the reference of every version that was built.
C9_SkippedVersionStillNamed ==
  cmd # NoCmd =>
    \A v \in pickedVersionMap :
      (FamilyNotFound(v) \/ v \in BuiltVersions)
        => Occurrences(SplitOnSpace(cmd.args), SuffixedRef(v)) = 1

C9_Witness ==
  /\ cmd # NoCmd
  /\ \E v \in pickedVersionMap : FamilyNotFound(v) /\ v \notin BuiltVersions

\* C10: the argument string is the bare image:tag followed by one
\* image:tag_<version> for each key of pickedVersionMap, each exactly once
\* and nothing else.
C10_ArgsNameEveryPickedVersionOnce ==
  cmd # NoCmd =>
    LET refs == SplitOnSpace(cmd.args) IN
      /\ Len(refs) = 1 + NumPicked
      /\ refs[1] = <<containerImageName>>
      /\ \A v \in pickedVersionMap :
           Cardinality({k \in 2..Len(refs) : refs[k] = SuffixedRef(v)}) = 1

C10_Witness ==
  /\ cmd # NoCmd
  /\ "1809" \in pickedVersionMap
  /\ cmd.args[Len(cmd.args)] # "1809"

\* C11 as stated: no task returns a status with an error and without a
\* server.
C11_ThreeShapes ==
  \A v \in pickedVersionMap :
    Returned(v) => ~(tout[v].s = NoServer /\ tout[v].err # NoErr)

\* C11 amended: a returned status carries exactly the server the task got
\* from FindExistingInstance or NewServer, so a failure of the readiness
\* wait, the copy or the build returns (server, error); a task that got no
\* server returns (nil, nil) exactly when the insert failed with the
\* not-found error of its image family, and (nil, error) otherwise.
C11_FourShapes ==
  \A v \in pickedVersionMap :
    Returned(v) =>
      /\ tout[v].s = ts[v]
      /\ tout[v].ver = v
      /\ (tout[v].s = NoServer /\ tout[v].err = NoErr) <=> FamilyNotFound(v)
      /\ (tout[v].s = NoServer /\ ~FamilyNotFound(v)) => tout[v].err # NoErr

C11_Witness ==
  \E v, w \in pickedVersionMap :
    /\ Returned(v) /\ tout[v].s = NoServer /\ tout[v].err # NoErr
    /\ Returned(w) /\ tout[w].s # NoServer /\ tout[w].err # NoErr

\* C12: the servers of two different tasks never sit on the same instance.
C12_DistinctInstances ==
  \A v, w \in pickedVersionMap :
    (v # w /\ ts[v] # NoServer /\ ts[w] # NoServer) => ts[v].inst # ts[w].inst

\* C25: in reuse mode no teardown goroutine issues a delete: every status
\* with a server gets one CleanFolder and its instance is still there
\* afterwards; outside reuse mode every status with a server gets one
\* DeleteInstance and no CleanFolder; a status without a server gets
\* neither.
C25_ReuseCleansElseDeletes ==
  \A k \in 1..Len(td) :
    /\ td[k].st = "skip" <=> bss[k].s = NoServer
    /\ td[k].st = "skip" => td[k].deletes = 0 /\ td[k].cleans = 0
    /\ reuseBuilderInstances =>
         /\ td[k].deletes = 0
         /\ td[k].st \in {"running", "returned"} => td[k].cleans = 1
         /\ bss[k].s # NoServer => bss[k].s.inst \in instances
    /\ ~reuseBuilderInstances =>
         /\ td[k].cleans = 0
         /\ td[k].st \in {"running", "returned"} => td[k].deletes = 1
    /\ (pc = "exit" /\ bss[k].s # NoServer) => td[k].st = "returned"

C25_Witness ==
  /\ pc = "exit"
  /\ reuseBuilderInstances
  /\ \E k \in 1..Len(td) : td[k].cleans = 1 /\ td[k].res = "ok"

\* C26: a teardown call that fails changes nothing of the outcome: at the
\* exit the run has succeeded exactly when no status carries an error and
\* the manifest was created, whatever the teardown calls returned, and
\* every status with a server has had its teardown call issued and
\* returned; while teardown is under way it can always go on.
C26_TeardownFailureIgnored ==
  /\ pc \in {"teardown", "exit"} =>
       (ExitCode = 0 <=>
          /\ Len(bss) = NumPicked
          /\ ~AnyBuildError(bss)
          /\ isManifestCreated)
  /\ pc = "exit" =>
       \A k \in 1..Len(td) :
         bss[k].s # NoServer => td[k].st = "returned" /\ td[k].res # ""
  /\ pc = "teardown" =>
       \/ \E k \in 1..Len(td) : td[k].st \in {"spawned", "running"}
       \/ ENABLED ShutdownWait

C26_Witness ==
  /\ pc = "exit"
  /\ ExitCode = 0
  /\ \E j, k \in 1..Len(td) :
       /\ td[j].res = "failed" /\ j < k
       /\ td[k].res = "ok" /\ td[k].deletes = 1

\* C36 as stated: with --reuse-builder-instances off no task holds an instance
\* that this run did not create, and teardown deletes only instances that
\* this run created.
C36_NoAdoptionWithoutReuse ==
  ~reuseBuilderInstances =>
    /\ \A v \in Versions : ts[v] # NoServer => ts[v].inst \in created
    /\ \A k \in DOMAIN td : td[k].deletes = 1 => bss[k].s.inst \in created

\* ==================================================================== main
\* most entries the --versions flag of a run is written from
MaxItems == 2

\* the names an entry of the --versions flag can hold: nothing, two
\* supported versions, and the obsolete one, which versionMap does not list
ItemNames == {"", "ltsc2019", "2004", "1809"}

\* an entry: a name with or without a space on either side
Items == [name : ItemNames, padL : BOOLEAN, padR : BOOLEAN]

\* the text of one entry
RenderItem(it) ==
  (IF it.padL THEN <<" ">> ELSE <<>>)
    \o (IF it.name = "" THEN <<>> ELSE <<it.name>>)
    \o (IF it.padR THEN <<" ">> ELSE <<>>)

RECURSIVE JoinComma(_)
\* the flag text: the entries separated by commas
JoinComma(items) ==
  IF items = <<>> THEN <<>>
  ELSE IF Len(items) = 1 THEN RenderItem(items[1])
  ELSE RenderItem(items[1]) \o <<",">> \o JoinComma(Tail(items))

RECURSIVE StringsSplit(_, _)
\* strings.Split(s, sep) for a one-character sep
StringsSplit(s, sep) ==
  IF s = <<>>
    THEN << <<>> >>
    ELSE LET rest == StringsSplit(Tail(s), sep) IN
           IF Head(s) = sep
             THEN << <<>> >> \o rest
             ELSE << <<Head(s)>> \o Head(rest) >> \o Tail(rest)

RECURSIVE TrimLeft(_)
TrimLeft(s) ==
  IF s # <<>> /\ Head(s) = " " THEN TrimLeft(Tail(s)) ELSE s

RECURSIVE TrimRight(_)
TrimRight(s) ==
  IF s # <<>> /\ s[Len(s)] = " " THEN TrimRight(SubSeq(s, 1, Len(s) - 1)) ELSE s

\* strings.TrimSpace
StringsTrimSpace(s) == TrimRight(TrimLeft(s))

VersionMapLookupAll(ver) ==
  IF Len(ver) = 1 /\ ver[1] \in DOMAIN allVersionMap THEN allVersionMap[ver[1]] ELSE ""

\* versionMap[ver] of Go: the empty string for a key the map lacks
VersionMapLookup(ver) ==
  IF Len(ver) = 1 /\ ver[1] \in DOMAIN versionMap THEN versionMap[ver[1]] ELSE ""

RECURSIVE PickLoop(_, _)
\* the range loop of getPickedVersionMap: fatal at the first entry that
\* versionMap does not list, empty entries skipped
PickLoop(vers, acc) ==
  IF vers = <<>> THEN [fatal |-> FALSE, keys |-> acc]
  ELSE LET ver == StringsTrimSpace(Head(vers)) IN
    IF ver = <<>> THEN PickLoop(Tail(vers), acc)
    ELSE IF VersionMapLookup(ver) = "" THEN [fatal |-> TRUE, keys |-> acc]
    ELSE PickLoop(Tail(vers), acc \cup {ver[1]})

\* getPickedVersionMap: the keys of the map it returns, or fatal
getPickedVersionMap(pickedVersions) ==
  IF pickedVersions = <<>>
    THEN [fatal |-> FALSE, keys |-> DOMAIN versionMap]
    ELSE LET r == PickLoop(StringsSplit(pickedVersions, ","), {}) IN
           IF ~r.fatal /\ r.keys = {} THEN [fatal |-> TRUE, keys |-> {}] ELSE r

\* a call main() made, and whether it succeeded
Call(name, ok) == [call |-> name, ok |-> ok]

\* main() moves on to position next; log.Fatalf ends the process with status 1
MainGoto(next) ==
  IF next = "fatal"
    THEN mpc' = "exit" /\ mExit' = 1
    ELSE mpc' = next /\ UNCHANGED mExit

AfterSetupIgnoringError(failed) == "process"

\* main() after setupProjectForBuilder returned
AfterSetup(failed) == IF failed THEN "fatal" ELSE "process"

\* what no step of main() changes
mainRest ==
  <<orchVars, remoteVars, readyVars, passwordVars,
    taskFlowVars, bucketVars, netVars, ruleVars,
    exchangeVars>>

InitMain ==
  /\ OrchIdle /\ RemoteIdle /\ ReadyIdle /\ PasswordIdle /\ PartsIdle
  /\ \E n \in 0..MaxItems : mItems \in [1..n -> Items]
  /\ mSel = JoinComma(mItems)
  /\ mObsolete \in BOOLEAN
  /\ mSkipFw \in BOOLEAN
  /\ mInternal \in BOOLEAN
  /\ mpc = "start"
  /\ mPicked = {}
  /\ mCalls = <<>>
  /\ mExit = -1

\* flag.Parse to the obsolete-version entry
MainPickVersions ==
  /\ mpc = "start"
  /\ LET r == getPickedVersionMap(mSel) IN
       IF r.fatal
         THEN MainGoto("fatal") /\ UNCHANGED mPicked
         ELSE /\ mPicked' = r.keys \cup (IF mObsolete THEN DOMAIN obsoleteVersionMap ELSE {})
              /\ MainGoto("project")
  /\ UNCHANGED <<mainRest, mItems, mSel, mObsolete, mSkipFw, mInternal, mCalls>>

\* the builder project: from the flag, or from builder.GetProject
MainGetProject ==
  /\ mpc = "project"
  /\ \E failed \in BOOLEAN : MainGoto(IF failed THEN "fatal" ELSE "bucket")
  /\ UNCHANGED <<mainRest, mItems, mSel, mObsolete, mSkipFw, mInternal, mPicked, mCalls>>

\* what NewGCSBucketIfNotExists can do: no client; the bucket is there; the
\* bucket is absent and is created or not; the lookup fails
BucketRuns ==
  { <<Call("storage.NewClient", FALSE)>>,
    <<Call("storage.NewClient", TRUE), Call("bucket.Attrs", TRUE)>>,
    <<Call("storage.NewClient", TRUE), Call("bucket.Attrs", FALSE)>>,
    <<Call("storage.NewClient", TRUE), Call("bucket.Attrs", FALSE),
      Call("bucket.Create", TRUE)>>,
    <<Call("storage.NewClient", TRUE), Call("bucket.Attrs", FALSE),
      Call("bucket.Create", FALSE)>> }

\* NewGCSBucketIfNotExists returns nil after that run
BucketOk(run) == run[Len(run)].ok

\* setupProjectForBuilder up to the firewall check
MainBucket ==
  /\ mpc = "bucket"
  /\ \E run \in BucketRuns :
       /\ mCalls' = mCalls \o run
       /\ MainGoto(IF ~BucketOk(run) THEN AfterSetup(TRUE)
                   ELSE IF mSkipFw \/ mInternal THEN AfterSetup(FALSE)
                   ELSE "firewall")
  /\ UNCHANGED <<mainRest, mItems, mSel, mObsolete, mSkipFw, mInternal, mPicked>>

\* what CheckProjectFirewalls can do: no compute service; one list per
\* network URL that is set, stopping at the first without a WinRM rule
FirewallRuns ==
  { <<Call("compute.NewService", FALSE)>> } \cup
  { <<Call("compute.NewService", TRUE)>> \o lists :
      lists \in { <<>>,
                  <<Call("firewalls.List", TRUE)>>,
                  <<Call("firewalls.List", FALSE)>>,
                  <<Call("firewalls.List", TRUE), Call("firewalls.List", TRUE)>>,
                  <<Call("firewalls.List", TRUE), Call("firewalls.List", FALSE)>> } }

\* CheckProjectFirewalls, and the return of setupProjectForBuilder
MainFirewall ==
  /\ mpc = "firewall"
  /\ \E run \in FirewallRuns :
       /\ mCalls' = mCalls \o run
       /\ MainGoto(AfterSetup(~run[Len(run)].ok))
  /\ UNCHANGED <<mainRest, mItems, mSel, mObsolete, mSkipFw, mInternal, mPicked>>

\* process(pickedVersionMap): every task asks compute for its instance
MainProcess ==
  /\ mpc = "process"
  /\ \E ok \in BOOLEAN :
       /\ mCalls' = mCalls \o <<Call("instances.Insert", ok)>>
       /\ mpc' = "exit"
       /\ mExit' = IF ok THEN 0 ELSE 1
  /\ UNCHANGED <<mainRest, mItems, mSel, mObsolete, mSkipFw, mInternal, mPicked>>

NextMain ==
  \/ MainPickVersions
  \/ MainGetProject
  \/ MainBucket
  \/ MainFirewall
  \/ MainProcess

SpecMain == InitMain /\ [][NextMain]_vars

\* positions of the calls of that name in the log of main()
CallsAt(name) == {k \in DOMAIN mCalls : mCalls[k].call = name}

\* the bucket step has returned nil by position k of the log
BucketDoneBefore(k) ==
  \E j \in 1..(k - 1) :
    mCalls[j].ok /\ mCalls[j].call \in {"bucket.Attrs", "bucket.Create"}

\* the firewall check has returned nil by position k of the log
FirewallDoneBefore(k) ==
  /\ \E j \in 1..(k - 1) : mCalls[j] = Call("compute.NewService", TRUE)
  /\ \A j \in 1..(k - 1) : mCalls[j].call = "firewalls.List" => mCalls[j].ok

\* the bucket step or the firewall check has failed
SetupFailed ==
  \/ mCalls # <<>> /\ ~mCalls[Len(mCalls)].ok
       /\ mCalls[Len(mCalls)].call # "instances.Insert"
  \/ \E j \in DOMAIN mCalls :
       ~mCalls[j].ok /\ mCalls[j].call \in {"storage.NewClient", "bucket.Create",
                                           "compute.NewService", "firewalls.List"}

\* C13: an instance insert is issued only after the bucket step returned nil
\* and, unless the firewall check is skipped, after the firewall check
\* returned nil; once the bucket step or the firewall check has failed the
\* process ends with status 1 and issues no insert.
C13_SetupBeforeInsert ==
  /\ \A k \in CallsAt("instances.Insert") :
       /\ BucketDoneBefore(k)
       /\ (mSkipFw \/ mInternal) \/ FirewallDoneBefore(k)
  /\ (mSkipFw \/ mInternal) => CallsAt("firewalls.List") = {}
  /\ SetupFailed =>
       /\ CallsAt("instances.Insert") = {}
       /\ mpc = "exit" /\ mExit = 1

C13_Witness ==
  /\ mpc = "exit" /\ mExit = 1
  /\ mCalls # <<>>
  /\ ~(mSkipFw \/ mInternal)
  /\ mCalls[Len(mCalls)] = Call("firewalls.List", FALSE)
  /\ BucketDoneBefore(Len(mCalls))

\* the versions the --versions flag names
Named == {mItems[k].name : k \in DOMAIN mItems} \ {""}

\* the flag is set and names a version versionMap lacks, or names none
BadSelector ==
  /\ mSel # <<>>
  /\ (Named = {} \/ ~(Named \subseteq DOMAIN versionMap))

\* C14: with a --versions flag that names an unsupported version or no
\* version at all the process exits with status 1 having made no bucket,
\* firewall or instance call; with the flag empty the picked map holds
\* every entry of versionMap.
C14_BadSelectorIsFatal ==
  /\ BadSelector =>
       /\ mCalls = <<>>
       /\ mpc \in {"start", "exit"}
       /\ mpc = "exit" => mExit = 1
  /\ (mSel = <<>> /\ mpc # "start") =>
       /\ DOMAIN versionMap \subseteq mPicked
       /\ mPicked \ DOMAIN obsoleteVersionMap = DOMAIN versionMap

C14_Witness ==
  /\ mpc = "exit" /\ mExit = 1 /\ mCalls = <<>>
  /\ Len(mItems) = 2
  /\ mItems[1].name = "2004" /\ mItems[2].name = "1809" /\ mItems[2].padL

\* ================================================= RunCommand and Copy
\* largest timeout a call is given
MaxTimeout == 2

\* largest exit code of a remote command
MaxExitCode == 3

TimeoutRejectedBelowZero(t) == t < 0

\* the argument check of Copy and RunCommand
TimeoutRejected(t) == t <= 0

ExitErrorIgnored(code) == Nil

\* what RunCommand returns for the exit code of the command
ExitError(code) == IF code # 0 THEN E("exit", code) ELSE Nil

CopyFallsBackAfterUpload(bucketErr) == bucketErr.kind \in {"zip", "upload"}

\* Copy goes on to the direct copy after copyViaBucket returned bucketErr
CopyFallsBack(bucketErr) == bucketErr # Nil

\* what no step of RunCommand or Copy changes
remoteRest ==
  <<orchVars, mainFlowVars, readyVars, passwordVars,
    taskFlowVars, bucketVars, netVars, ruleVars,
    exchangeVars>>

InitRemote ==
  /\ OrchIdle /\ MainFlowIdle /\ ReadyIdle /\ PasswordIdle /\ PartsIdle
  /\ rOp \in {"RunCommand", "Copy"}
  /\ rTimeout \in -1..MaxTimeout
  /\ rpc = IF rOp = "RunCommand" THEN "rc.entry" ELSE "copy.entry"
  /\ rCaller = IF rOp = "RunCommand" THEN "test" ELSE ""
  /\ rCalls = <<>>
  /\ rBucketErr = Nil
  /\ rExit = -1
  /\ rRet = NoRet

\* return err from RunCommand to its caller
RunCommandReturn(err) ==
  IF rCaller = "copyViaBucket"
    THEN rBucketErr' = err /\ rpc' = "copy.afterBucket" /\ UNCHANGED rRet
    ELSE rRet' = [done |-> TRUE, err |-> err] /\ rpc' = "done" /\ UNCHANGED rBucketErr

\* return err from Copy
CopyReturn(err) ==
  rRet' = [done |-> TRUE, err |-> err] /\ rpc' = "done"

RunCommandEnter ==
  /\ rpc = "rc.entry"
  /\ IF TimeoutRejected(rTimeout)
       THEN RunCommandReturn(E("runTimeout must be greater than 0", 0))
       ELSE rpc' = "rc.client" /\ UNCHANGED <<rBucketErr, rRet>>
  /\ UNCHANGED <<remoteRest, rOp, rTimeout, rCaller, rCalls, rExit>>

RunCommandNewClient ==
  /\ rpc = "rc.client"
  /\ \E ok \in BOOLEAN :
       /\ rCalls' = Append(rCalls, Call("winrm.NewClient", ok))
       /\ IF ok THEN rpc' = "rc.shell" /\ UNCHANGED <<rBucketErr, rRet>>
          ELSE RunCommandReturn(E("winrm.NewClient", 0))
  /\ UNCHANGED <<remoteRest, rOp, rTimeout, rCaller, rExit>>

RunCommandCreateShell ==
  /\ rpc = "rc.shell"
  /\ \E ok \in BOOLEAN :
       /\ rCalls' = Append(rCalls, Call("CreateShell", ok))
       /\ IF ok THEN rpc' = "rc.exec" /\ UNCHANGED <<rBucketErr, rRet>>
          ELSE RunCommandReturn(E("CreateShell", 0))
  /\ UNCHANGED <<remoteRest, rOp, rTimeout, rCaller, rExit>>

RunCommandExecute ==
  /\ rpc = "rc.exec"
  /\ \E ok \in BOOLEAN :
       /\ rCalls' = Append(rCalls, Call("Execute", ok))
       /\ IF ok THEN rpc' = "rc.wait" /\ UNCHANGED <<rBucketErr, rRet>>
          ELSE RunCommandReturn(E("Execute", 0))
  /\ UNCHANGED <<remoteRest, rOp, rTimeout, rCaller, rExit>>

\* cmd.Wait, shell.Close and the exit code
RunCommandWait ==
  /\ rpc = "rc.wait"
  /\ \E code \in 0..MaxExitCode :
       /\ rExit' = code
       /\ RunCommandReturn(ExitError(code))
  /\ UNCHANGED <<remoteRest, rOp, rTimeout, rCaller, rCalls>>

CopyEnter ==
  /\ rpc = "copy.entry"
  /\ IF TimeoutRejected(rTimeout)
       THEN CopyReturn(E("copy timeout must be greater than 0", 0))
       ELSE rpc' = "copy.winrmcp" /\ UNCHANGED rRet
  /\ UNCHANGED <<remoteRest, rOp, rTimeout, rCaller, rCalls, rBucketErr, rExit>>

CopyNewConnection ==
  /\ rpc = "copy.winrmcp"
  /\ \E ok \in BOOLEAN :
       /\ rCalls' = Append(rCalls, Call("winrmcp.New", ok))
       /\ IF ok THEN rpc' = "copy.zip" /\ UNCHANGED rRet
          ELSE CopyReturn(E("winrmcp.New", 0))
  /\ UNCHANGED <<remoteRest, rOp, rTimeout, rCaller, rBucketErr, rExit>>

\* copyViaBucket: createZip of writeZipToBucket
CopyViaBucketZip ==
  /\ rpc = "copy.zip"
  /\ \E ok \in BOOLEAN :
       /\ rCalls' = Append(rCalls, Call("createZip", ok))
       /\ IF ok THEN rpc' = "copy.upload" /\ UNCHANGED rBucketErr
          ELSE rBucketErr' = E("zip", 0) /\ rpc' = "copy.afterBucket"
  /\ UNCHANGED <<remoteRest, rOp, rTimeout, rCaller, rExit, rRet>>

\* copyViaBucket: writeToBucket of writeZipToBucket, then the call of
\* RunCommand with copyTimeout
CopyViaBucketUpload ==
  /\ rpc = "copy.upload"
  /\ \E ok \in BOOLEAN :
       /\ rCalls' = Append(rCalls, Call("writeToBucket", ok))
       /\ IF ok THEN rpc' = "rc.entry" /\ rCaller' = "copyViaBucket"
                     /\ UNCHANGED rBucketErr
          ELSE rBucketErr' = E("upload", 0) /\ rpc' = "copy.afterBucket"
               /\ UNCHANGED rCaller
  /\ UNCHANGED <<remoteRest, rOp, rTimeout, rExit, rRet>>

\* Copy after copyViaBucket returned
CopyAfterBucket ==
  /\ rpc = "copy.afterBucket"
  /\ IF CopyFallsBack(rBucketErr)
       THEN rpc' = "copy.direct" /\ UNCHANGED rRet
       ELSE CopyReturn(rBucketErr)
  /\ UNCHANGED <<remoteRest, rOp, rTimeout, rCaller, rCalls, rBucketErr, rExit>>

\* c.Copy(inputPath, *r.WorkspaceFolder)
CopyDirect ==
  /\ rpc = "copy.direct"
  /\ \E ok \in BOOLEAN :
       /\ rCalls' = Append(rCalls, Call("winrmcp.Copy", ok))
       /\ CopyReturn(IF ok THEN Nil ELSE E("winrmcp.Copy", 0))
  /\ UNCHANGED <<remoteRest, rOp, rTimeout, rCaller, rBucketErr, rExit>>

NextRemote ==
  \/ RunCommandEnter
  \/ RunCommandNewClient
  \/ RunCommandCreateShell
  \/ RunCommandExecute
  \/ RunCommandWait
  \/ CopyEnter
  \/ CopyNewConnection
  \/ CopyViaBucketZip
  \/ CopyViaBucketUpload
  \/ CopyAfterBucket
  \/ CopyDirect

SpecRemote == InitRemote /\ [][NextRemote]_vars

\* the call logged under that name was made and went as ok says
Logged(name, ok) == \E k \in DOMAIN rCalls : rCalls[k] = Call(name, ok)

\* the call logged under that name was made
Attempted(name) == Logged(name, TRUE) \/ Logged(name, FALSE)

\* C15: with a timeout of zero or less Copy and RunCommand return the
\* argument error at once: nothing has been connected, uploaded or run when
\* they return, and no later step of the call exists.
C15_NonPositiveTimeoutRejected ==
  rTimeout <= 0 =>
    /\ rCalls = <<>>
    /\ rExit = -1
    /\ rpc \in {"rc.entry", "copy.entry", "done"}
    /\ rpc = "done" =>
         /\ rRet.done
         /\ rOp = "RunCommand" => rRet.err = E("runTimeout must be greater than 0", 0)
         /\ rOp = "Copy" => rRet.err = E("copy timeout must be greater than 0", 0)

C15_Witness ==
  rOp = "Copy" /\ rTimeout = 0 /\ rpc = "done" /\ rRet.err # Nil

\* C16: with a positive timeout RunCommand returns nil exactly when the
\* client and the shell were created, the command was started and its exit
\* code is 0; a command that exits non-zero yields the error naming that
\* exit code.
C16_RunCommandSuccessIff ==
  (rOp = "RunCommand" /\ rTimeout > 0 /\ rRet.done) =>
    /\ rRet.err = Nil <=>
         /\ Logged("winrm.NewClient", TRUE)
         /\ Logged("CreateShell", TRUE)
         /\ Logged("Execute", TRUE)
         /\ rExit = 0
    /\ rExit > 0 => rRet.err = E("exit", rExit)

C16_Witness ==
  /\ rOp = "RunCommand" /\ rTimeout > 0 /\ rRet.done
  /\ rExit = MaxExitCode /\ rRet.err = E("exit", MaxExitCode)

\* the bucket path of Copy failed: no archive, no upload, or the remote
\* download and expand command failed
BucketPathFailed ==
  \/ Logged("createZip", FALSE)
  \/ Logged("writeToBucket", FALSE)
  \/ Logged("winrm.NewClient", FALSE)
  \/ Logged("CreateShell", FALSE)
  \/ Logged("Execute", FALSE)
  \/ rExit > 0

\* the bucket path of Copy succeeded
BucketPathSucceeded ==
  /\ Logged("createZip", TRUE)
  /\ Logged("writeToBucket", TRUE)
  /\ rExit = 0

\* C17: in Copy with a positive timeout the direct copy is attempted exactly
\* when the bucket path failed, whatever failed in it, and Copy returns nil
\* exactly when the bucket path succeeded or the direct copy that followed
\* its failure succeeded.
C17_DirectCopyIffBucketFailed ==
  (rOp = "Copy" /\ rTimeout > 0) =>
    /\ Attempted("winrmcp.Copy") => BucketPathFailed
    /\ rRet.done => (Attempted("winrmcp.Copy") <=> BucketPathFailed)
    /\ rRet.done =>
         (rRet.err = Nil <=>
            \/ BucketPathSucceeded
            \/ BucketPathFailed /\ Logged("winrmcp.Copy", TRUE))

C17_Witness ==
  /\ rOp = "Copy" /\ rTimeout > 0 /\ rRet.done /\ rRet.err = Nil
  /\ rExit > 0
  /\ Logged("winrmcp.Copy", TRUE)

\* ================================================= WaitForServerBeReady
\* largest setupTimeout, in sleeps of 10 s
MaxSetupTicks == 3

\* longest a probe command takes, in sleeps of 10 s
MaxProbeTicks == 1

\* what RunCommand("docker -v", ...) can return when its timeout is positive
ProbeResults ==
  {Nil, E("winrm.NewClient", 0), E("CreateShell", 0), E("Execute", 0)}
    \cup {ExitError(code) : code \in 1..MaxExitCode}

AfterProbeFatalOnExit(err) ==
  IF err = Nil THEN "return nil" ELSE IF err.kind = "exit" THEN "return err" ELSE "sleep"

\* the loop body of WaitForServerBeReady after the probe returned err
AfterProbe(err) == IF err = Nil THEN "return nil" ELSE "sleep"

\* what no step of WaitForServerBeReady changes
readyRest ==
  <<orchVars, mainFlowVars, remoteVars, passwordVars,
    taskFlowVars, bucketVars, netVars, ruleVars,
    exchangeVars>>

InitReady ==
  /\ OrchIdle /\ MainFlowIdle /\ RemoteIdle /\ PasswordIdle /\ PartsIdle
  /\ wSetup \in -1..MaxSetupTicks
  /\ wNow = 0
  /\ wpc = "check"
  /\ wProbes = <<>>
  /\ wRet = NoRet

\* the loop condition, and the return after the loop
ReadyCheckDeadline ==
  /\ wpc = "check"
  /\ IF wNow < wSetup
       THEN wpc' = "probe" /\ UNCHANGED wRet
       ELSE wpc' = "done" /\ wRet' = [done |-> TRUE, err |-> E("Timed out", 0)]
  /\ UNCHANGED <<readyRest, wSetup, wNow, wProbes>>

\* one probe: RunCommand("docker -v", folder, setupTimeout)
ReadyProbe ==
  /\ wpc = "probe"
  /\ \E err \in ProbeResults, d \in 0..MaxProbeTicks :
       /\ wProbes' = Append(wProbes, err)
       /\ wNow' = wNow + d
       /\ CASE AfterProbe(err) = "return nil" ->
                 wpc' = "done" /\ wRet' = [done |-> TRUE, err |-> Nil]
            [] AfterProbe(err) = "return err" ->
                 wpc' = "done" /\ wRet' = [done |-> TRUE, err |-> err]
            [] OTHER -> wpc' = "sleep" /\ UNCHANGED wRet
  /\ UNCHANGED <<readyRest, wSetup>>

\* time.Sleep(10 * time.Second)
ReadySleep ==
  /\ wpc = "sleep"
  /\ wNow' = wNow + 1
  /\ wpc' = "check"
  /\ UNCHANGED <<readyRest, wSetup, wProbes, wRet>>

NextReady ==
  \/ ReadyCheckDeadline
  \/ ReadyProbe
  \/ ReadySleep

SpecReady == InitReady /\ [][NextReady]_vars

\* C18: the wait returns nil with the first probe that succeeds; a failed
\* probe of any kind is followed by the sleep, and by another probe if the
\* deadline has not passed then; the wait returns the timeout error, and
\* only with the deadline passed and no probe succeeded; it never returns
\* the error of a probe.
C18_ReadinessWait ==
  /\ \A k \in DOMAIN wProbes : wProbes[k] = Nil =>
       /\ k = Len(wProbes)
       /\ wRet = [done |-> TRUE, err |-> Nil]
  /\ (wRet.done /\ wRet.err = Nil) =>
       wProbes # <<>> /\ wProbes[Len(wProbes)] = Nil
  /\ (wRet.done /\ wRet.err # Nil) =>
       /\ wRet.err = E("Timed out", 0)
       /\ wNow >= wSetup
       /\ \A k \in DOMAIN wProbes : wProbes[k] # Nil
  /\ wRet.done <=> wpc = "done"
  /\ wpc = "sleep" => wProbes # <<>> /\ wProbes[Len(wProbes)] # Nil
  /\ wpc # "done" => ENABLED NextReady

C18_Witness ==
  /\ wRet = [done |-> TRUE, err |-> E("Timed out", 0)]
  /\ Len(wProbes) >= 2
  /\ wProbes[1].kind = "exit" /\ wProbes[2].kind = "CreateShell"

\* ================================================ resetWindowsPassword
\* most lines one serial port output holds
MaxLines == 2

\* the deadline of the polling loop (5 minutes), in sleeps of 2 s
PollDeadline == 2

\* a line of the serial port output: not JSON, or a response with the
\* modulus submitted ("M") or another one and a ciphertext that is good, is
\* not base64, or does not decrypt under the key
Lines ==
  {[parses |-> FALSE, modulus |-> "", enc |-> ""]}
    \cup [parses : {TRUE}, modulus : {"M", "other"},
          enc : {"good", "notBase64", "notCipher"}]

\* the outputs a read returns: strings.Split yields at least one line
Outputs == UNION {[1..n -> Lines] : n \in 1..MaxLines}

MatchVerdictKeepPolling(line) ==
  IF line.enc = "good" THEN "password" ELSE "continue"

\* the loop body on a line that carries the submitted modulus
MatchVerdict(line) ==
  IF line.enc = "notBase64" THEN "Cannot Base64 decode"
  ELSE IF line.enc = "notCipher" THEN "Cannot decrypt"
  ELSE "password"

LineVerdictUnmarshalFatal(line) ==
  IF ~line.parses THEN "Cannot Unmarshal"
  ELSE IF line.modulus = "M" THEN MatchVerdict(line)
  ELSE "continue"

\* the body of the range loop over responses: what one line leads to
LineVerdict(line) ==
  IF ~line.parses THEN "continue"
  ELSE IF line.modulus = "M" THEN MatchVerdict(line)
  ELSE "continue"

\* what no step of the polling loop changes
passwordRest ==
  <<orchVars, mainFlowVars, remoteVars, readyVars,
    taskFlowVars, bucketVars, netVars, ruleVars,
    exchangeVars>>

InitPassword ==
  /\ OrchIdle /\ MainFlowIdle /\ RemoteIdle /\ ReadyIdle /\ PartsIdle
  /\ cNow = 0
  /\ cpc = "check"
  /\ cLines = <<>>
  /\ cIdx = 0
  /\ cSeen = <<>>
  /\ cPolls = 0
  /\ cRet = NoRet

\* the loop condition, and the return after the loop
PasswordCheckDeadline ==
  /\ cpc = "check"
  /\ IF cNow < PollDeadline
       THEN cpc' = "read" /\ UNCHANGED cRet
       ELSE cpc' = "done"
            /\ cRet' = [done |-> TRUE, err |-> E("Could not retrieve password before timeout", 0)]
  /\ UNCHANGED <<passwordRest, cNow, cLines, cIdx, cSeen, cPolls>>

\* GetSerialPortOutput(...).Port(4).Do() fails
PasswordReadFails ==
  /\ cpc = "read"
  /\ cPolls' = cPolls + 1
  /\ cpc' = "done"
  /\ cRet' = [done |-> TRUE, err |-> E("Unable to get serial port output", 0)]
  /\ UNCHANGED <<passwordRest, cNow, cLines, cIdx, cSeen>>

\* GetSerialPortOutput(...).Port(4).Do() returns an output, split in lines
PasswordRead ==
  /\ cpc = "read"
  /\ \E out \in Outputs, d \in 0..1 :
       /\ cLines' = out
       /\ cNow' = cNow + d
  /\ cIdx' = 1
  /\ cSeen' = <<>>
  /\ cPolls' = cPolls + 1
  /\ cpc' = "scan"
  /\ UNCHANGED <<passwordRest, cRet>>

\* one pass of the range loop over responses
PasswordScanLine ==
  /\ cpc = "scan"
  /\ cSeen' = Append(cSeen, cLines[cIdx])
  /\ LET verdict == LineVerdict(cLines[cIdx]) IN
       CASE verdict = "continue" ->
              /\ cIdx' = cIdx + 1
              /\ cpc' = IF cIdx = Len(cLines) THEN "sleep" ELSE "scan"
              /\ UNCHANGED cRet
         [] verdict = "password" ->
              /\ cpc' = "done"
              /\ cRet' = [done |-> TRUE, err |-> Nil]
              /\ UNCHANGED cIdx
         [] OTHER ->
              /\ cpc' = "done"
              /\ cRet' = [done |-> TRUE, err |-> E(verdict, 0)]
              /\ UNCHANGED cIdx
  /\ UNCHANGED <<passwordRest, cNow, cLines, cPolls>>

\* time.Sleep(2 * time.Second)
PasswordSleep ==
  /\ cpc = "sleep"
  /\ cNow' = cNow + 1
  /\ cpc' = "check"
  /\ UNCHANGED <<passwordRest, cLines, cIdx, cSeen, cPolls, cRet>>

NextPassword ==
  \/ PasswordCheckDeadline
  \/ PasswordReadFails
  \/ PasswordRead
  \/ PasswordScanLine
  \/ PasswordSleep

SpecPassword == InitPassword /\ [][NextPassword]_vars

\* the line does not parse, or carries a modulus other than the submitted
Skippable(line) == ~line.parses \/ line.modulus # "M"

\* the line carries the submitted modulus and a ciphertext that cannot be
\* base64-decoded or decrypted
Undecodable(line) ==
  line.parses /\ line.modulus = "M" /\ line.enc \in {"notBase64", "notCipher"}

\* the exchange ended in the loop body, on line cIdx of the output
EndedOnLine ==
  /\ cRet.done
  /\ cRet.err.kind \notin {"Could not retrieve password before timeout",
                          "Unable to get serial port output"}

\* C19: a line that does not parse or carries another modulus ends nothing:
\* the loop body goes on to the next line of the output, after the last
\* line the loop sleeps and, the deadline not passed, reads the console
\* again; the exchange ends on a line only if that line carries the
\* submitted modulus, and otherwise only with the deadline passed or with a
\* read of the console that failed.
C19_SkippedLineNeverTerminates ==
  /\ \A k \in DOMAIN cSeen : Skippable(cSeen[k]) =>
       \/ k < Len(cSeen)
       \/ cpc = "scan" /\ cIdx = k + 1 /\ cIdx <= Len(cLines)
       \/ cpc \in {"sleep", "check", "read"} /\ k = Len(cLines)
       \/ cpc = "done" /\ ~EndedOnLine /\ k = Len(cLines)
  /\ cpc \in {"sleep", "check"} => cSeen = cLines
  /\ cpc = "scan" => cSeen = SubSeq(cLines, 1, cIdx - 1)
  /\ EndedOnLine =>
       /\ cIdx \in DOMAIN cLines
       /\ ~Skippable(cLines[cIdx])
       /\ cSeen = SubSeq(cLines, 1, cIdx)
  /\ (cRet.done /\ cRet.err.kind = "Could not retrieve password before timeout") =>
       cNow >= PollDeadline
  /\ cpc = "read" => ENABLED PasswordRead
  /\ cpc # "done" => ENABLED NextPassword

C19_Witness ==
  /\ cPolls = 2
  /\ cpc = "scan" /\ cIdx = 2 /\ Len(cLines) = 2
  /\ ~cLines[1].parses
  /\ cSeen = <<cLines[1]>>

\* C20: once the loop body has looked at a line that carries the submitted
\* modulus and a ciphertext that cannot be base64-decoded or decrypted, the
\* exchange is over with that error: no later line is looked at and no
\* further read is made.
C20_UndecodableIsTerminal ==
  \A k \in DOMAIN cSeen : Undecodable(cSeen[k]) =>
    /\ k = Len(cSeen)
    /\ cpc = "done"
    /\ cRet.done
    /\ cRet.err = E(IF cSeen[k].enc = "notBase64" THEN "Cannot Base64 decode"
                    ELSE "Cannot decrypt", 0)

C20_Witness ==
  /\ cpc = "done" /\ cRet.err = E("Cannot decrypt", 0)
  /\ Len(cLines) = 2 /\ cIdx = 1
  /\ cLines[2] = [parses |-> TRUE, modulus |-> "M", enc |-> "good"]
  /\ cNow < PollDeadline

\* ============================================= buildSingleArchContainer
\* the version the task followed here builds
TaskVersion == "ltsc2019"

\* the error a step of the task returns, named after what failed
TaskErr(what) == [api |-> FALSE, code |-> 0, msg |-> <<what>>]

\* the error resetWindowsPassword returns after its 5-minute deadline
PasswordTimeout == TaskErr("Could not retrieve password before timeout")

\* what resetPasswordAndPopulateRemoteServer can return
ResetErrors ==
  {NoErr, PasswordTimeout, TaskErr("Failed to set instance metadata"),
   TaskErr("Failed to get IP address")}

\* a step of the task and the error it returned
Step(name, err) == [step |-> name, err |-> err]

StepFailedNever(err) == FALSE

\* if err != nil after WaitForServerBeReady, Copy and the build
StepFailed(err) == err # NoErr

\* what no step of the task changes
taskRest ==
  <<orchVars, mainFlowVars, remoteVars, readyVars, passwordVars,
    bucketVars, netVars, ruleVars,
    exchangeVars>>

InitTask ==
  /\ OrchIdle /\ MainFlowIdle /\ RemoteIdle /\ ReadyIdle /\ PasswordIdle
  /\ BucketIdle /\ NetIdle /\ RuleIdle /\ ExchangeIdle
  /\ kInst \in ExistingPools
  /\ kpc = "find"
  /\ kS = NoServer
  /\ kErr = NoErr
  /\ kLog = <<>>
  /\ kOut = NoStatus
  /\ kExit = -1

\* return builderServerStatus{s, err}
TaskReturn(s, err) ==
  /\ kOut' = Status(TaskVersion, s, err)
  /\ kpc' = "returned"

\* FindExistingInstance up to the choice of an instance: no compute
\* service, a failed listing, an empty listing, or one instance chosen
TaskFindList ==
  /\ kpc = "find"
  /\ reuseFlagIsSet
  /\ \/ \E e \in {TaskErr("Failed to start GCE service"),
                  TaskErr("Failed to list relevant instances")} :
          /\ kErr' = e
          /\ kLog' = Append(kLog, Step("FindExistingInstance", e))
          /\ kpc' = "afterFind"
          /\ UNCHANGED kS
     \/ /\ kInst = {}
        /\ kErr' = NoErr
        /\ kLog' = Append(kLog, Step("FindExistingInstance", NoErr))
        /\ kpc' = "afterFind"
        /\ UNCHANGED kS
     \/ \E n \in kInst :
          /\ kS' = Server(n, TaskVersion)
          /\ kLog' = Append(kLog, Step("FindExistingInstance", NoErr))
          /\ kpc' = "existingServer"
          /\ UNCHANGED kErr
  /\ UNCHANGED <<taskRest, kInst, kOut, kExit>>

\* existingServer on the chosen instance: Instances.Get, then
\* resetPasswordAndPopulateRemoteServer; any error gives (nil, err)
TaskExistingServer ==
  /\ kpc = "existingServer"
  /\ \E e \in ResetErrors \cup {TaskErr("Could not get provided existing GCE Instance details")} :
       /\ kErr' = e
       /\ kLog' = Append(kLog, Step("existingServer", e))
       /\ kS' = IF e = NoErr THEN kS ELSE NoServer
  /\ kpc' = "afterFind"
  /\ UNCHANGED <<taskRest, kInst, kOut, kExit>>

\* if s == nil { NewServer } else on to the readiness wait
TaskAfterFind ==
  /\ kpc = "afterFind"
  /\ kpc' = IF kS = NoServer THEN "newServer" ELSE "wait"
  /\ UNCHANGED <<taskRest, kInst, kS, kErr, kLog, kOut, kExit>>

\* the error branch of buildSingleArchContainer after NewServer
TaskNewServerFailed(e) ==
  /\ kErr' = e
  /\ IF isImageNotFoundErr(e, allVersionMap[TaskVersion])
       THEN TaskReturn(NoServer, NoErr)
       ELSE TaskReturn(NoServer, e)

\* NewServer up to the end of newInstance
TaskNewInstance ==
  /\ kpc = "newServer"
  /\ \/ \E e \in {TaskErr("Failed to start GCE service")}
                   \cup InsertErrors(allVersionMap[TaskVersion]) :
          /\ kLog' = Append(kLog, Step("newInstance", e))
          /\ TaskNewServerFailed(e)
          /\ UNCHANGED <<kInst, kS>>
     \/ \* the insert operation is DONE, Instances.Get then fails
        LET e == ApiErr(503, <<"backend error">>) IN
          /\ kLog' = Append(kLog, Step("newInstance", e))
          /\ TaskNewServerFailed(e)
          /\ kInst' = kInst \cup {NewInstanceName(TaskVersion)}
          /\ UNCHANGED kS
     \/ /\ kLog' = Append(kLog, Step("newInstance", NoErr))
        /\ kInst' = kInst \cup {NewInstanceName(TaskVersion)}
        /\ kS' = Server(NewInstanceName(TaskVersion), TaskVersion)
        /\ kErr' = NoErr
        /\ kpc' = "newServer.reset"
        /\ UNCHANGED kOut
  /\ UNCHANGED <<taskRest, kExit>>

\* resetPasswordAndPopulateRemoteServer inside NewServer
TaskNewServerReset ==
  /\ kpc = "newServer.reset"
  /\ \E e \in ResetErrors :
       /\ kLog' = Append(kLog, Step("NewServer", e))
       /\ IF e = NoErr
            THEN kErr' = e /\ kpc' = "wait" /\ UNCHANGED <<kS, kOut>>
            ELSE kS' = NoServer /\ TaskNewServerFailed(e)
  /\ UNCHANGED <<taskRest, kInst, kExit>>

\* one of the three steps on the server: on an error the task returns
\* the server and the error, else it goes on to the next position
TaskStep(name, next) ==
  \E e \in {NoErr, TaskErr(name)} :
    /\ kErr' = e
    /\ kLog' = Append(kLog, Step(name, e))
    /\ IF StepFailed(e)
         THEN TaskReturn(kS, e)
         ELSE IF next = "return" THEN TaskReturn(kS, NoErr)
         ELSE kpc' = next /\ UNCHANGED kOut

\* r.WaitForServerBeReady(*setupTimeout)
TaskWait ==
  /\ kpc = "wait"
  /\ TaskStep("WaitForServerBeReady", "copy")
  /\ UNCHANGED <<taskRest, kInst, kS, kExit>>

\* r.Copy(*workspacePath, *copyTimeout)
TaskCopy ==
  /\ kpc = "copy"
  /\ TaskStep("Copy", "build")
  /\ UNCHANGED <<taskRest, kInst, kS, kExit>>

\* buildSingleArchContainerOnRemote, and the final return
TaskBuild ==
  /\ kpc = "build"
  /\ TaskStep("buildSingleArchContainerOnRemote", "return")
  /\ UNCHANGED <<taskRest, kInst, kS, kExit>>

\* process() with this one status: an error in it fails the run, else the
\* manifest command decides
TaskProcess ==
  /\ kpc = "returned"
  /\ IF AnyBuildError(<<kOut>>)
       THEN kExit' = 1
       ELSE \E isCreated \in (IF kOut.s = NoServer THEN {FALSE} ELSE BOOLEAN) :
              kExit' = IF ManifestFailed(isCreated) THEN 1 ELSE 0
  /\ kpc' = "exit"
  /\ UNCHANGED <<taskRest, kInst, kS, kErr, kLog, kOut>>

NextTask ==
  \/ TaskFindList
  \/ TaskExistingServer
  \/ TaskAfterFind
  \/ TaskNewInstance
  \/ TaskNewServerReset
  \/ TaskWait
  \/ TaskCopy
  \/ TaskBuild
  \/ TaskProcess

SpecTask == InitTask /\ [][NextTask]_vars

\* the task has returned its status
TaskReturned == kpc \in {"returned", "exit"}

\* positions of the log at which that step was made
StepsAt(name) == {k \in DOMAIN kLog : kLog[k].step = name}

\* C21 as stated: once a credential exchange of the task has timed out, the
\* status the task returns carries an error and the run exits with failure.
C21_PasswordTimeoutFailsRun ==
  (TaskReturned /\ \E k \in DOMAIN kLog : kLog[k].err = PasswordTimeout) =>
    /\ kOut.err # NoErr
    /\ kpc = "exit" => kExit = 1

\* C29: Copy is started only after WaitForServerBeReady returned nil, the
\* build only after Copy returned nil; when one of the three returns an
\* error it is the last step of the task, and the task returns the server
\* and that error.
C29_StepsInOrder ==
  /\ \A k \in StepsAt("Copy") :
       \E j \in 1..(k - 1) : kLog[j] = Step("WaitForServerBeReady", NoErr)
  /\ \A k \in StepsAt("buildSingleArchContainerOnRemote") :
       \E j \in 1..(k - 1) : kLog[j] = Step("Copy", NoErr)
  /\ \A k \in StepsAt("WaitForServerBeReady") \cup StepsAt("Copy")
                \cup StepsAt("buildSingleArchContainerOnRemote") :
       /\ kS # NoServer
       /\ kLog[k].err # NoErr =>
            /\ k = Len(kLog)
            /\ TaskReturned
            /\ kOut = Status(TaskVersion, kS, kLog[k].err)
  /\ \A name \in {"WaitForServerBeReady", "Copy",
                  "buildSingleArchContainerOnRemote"} :
       Cardinality(StepsAt(name)) <= 1

C29_Witness ==
  /\ TaskReturned
  /\ kLog[Len(kLog)] = Step("Copy", TaskErr("Copy"))
  /\ kOut.s # NoServer /\ kOut.err = TaskErr("Copy")

\* C30 as stated: when the task returns a status with an error, no instance
\* it used is running any more.
C30_ErrorMeansServerStopped ==
  (TaskReturned /\ kOut.err # NoErr) =>
    /\ kOut.s # NoServer => kOut.s.inst \notin kInst
    /\ NewInstanceName(TaskVersion) \notin kInst

-----------------------------------------------------------------------------
\* NewGCSBucketIfNotExists, called by concurrent runs of the builder on the
\* same workspace bucket

\* number of runs that set the bucket up at the same time
MaxRuns == 3

Runs == 1..MaxRuns

\* the googleapi 409 of Buckets.insert on a bucket that already exists
AlreadyExists == E("Create bucket", 409)

CreateOnExisting == AlreadyExists

bucketRest ==
  <<orchVars, mainFlowVars, remoteVars, readyVars, passwordVars,
    taskFlowVars, netVars, ruleVars,
    exchangeVars>>

InitBucket ==
  /\ OrchIdle /\ MainFlowIdle /\ RemoteIdle /\ ReadyIdle /\ PasswordIdle
  /\ TaskIdle /\ NetIdle /\ RuleIdle /\ ExchangeIdle
  /\ bExists \in BOOLEAN
  /\ bpc = [r \in Runs |-> "start"]
  /\ bRet = [r \in Runs |-> NoRet]

\* return err
BucketReturn(r, err) ==
  /\ bRet' = [bRet EXCEPT ![r] = [done |-> TRUE, err |-> err]]
  /\ bpc' = [bpc EXCEPT ![r] = "done"]

\* if workspaceBucket == "" { return nil }
BucketSkip(r) ==
  /\ bpc[r] = "start"
  /\ BucketReturn(r, Nil)
  /\ UNCHANGED <<bucketRest, bExists>>

\* client, err := storage.NewClient(ctx)
BucketNewClient(r) ==
  /\ bpc[r] = "start"
  /\ \/ BucketReturn(r, E("Storage client creation failed", 0))
     \/ /\ bpc' = [bpc EXCEPT ![r] = "attrs"]
        /\ UNCHANGED bRet
  /\ UNCHANGED <<bucketRest, bExists>>

\* bkt.Attrs(ctx): nil, storage.ErrBucketNotExist or another error
BucketAttrs(r) ==
  /\ bpc[r] = "attrs"
  /\ \/ /\ bExists
        /\ BucketReturn(r, Nil)
     \/ /\ ~bExists
        /\ bpc' = [bpc EXCEPT ![r] = "create"]
        /\ UNCHANGED bRet
     \/ BucketReturn(r, E("Find bucket", 0))
  /\ UNCHANGED <<bucketRest, bExists>>

\* bkt.Create(ctx, projectID, attrs): any error is returned
BucketCreate(r) ==
  /\ bpc[r] = "create"
  /\ \/ /\ bExists
        /\ BucketReturn(r, CreateOnExisting)
        /\ UNCHANGED bExists
     \/ /\ ~bExists
        /\ \/ /\ bExists' = TRUE
              /\ BucketReturn(r, Nil)
           \/ /\ BucketReturn(r, E("Create bucket", 0))
              /\ UNCHANGED bExists
  /\ UNCHANGED bucketRest

NextBucket ==
  \E r \in Runs :
    \/ BucketSkip(r)
    \/ BucketNewClient(r)
    \/ BucketAttrs(r)
    \/ BucketCreate(r)

SpecBucket == InitBucket /\ [][NextBucket]_vars

\* C27 as stated: a run whose create call finds the bucket already there,
\* because it existed or because a concurrent run created it after this run's
\* existence check, returns success: no run returns the "already exists"
\* result of the create call as an error.
C27_AlreadyExistsIsSuccess ==
  \A r \in Runs :
    (bpc[r] = "done" /\ bExists) => bRet[r].err # AlreadyExists

-----------------------------------------------------------------------------
\* the network configuration: NewInstanceNetworkConfig, the two URL
\* resolutions and CheckProjectFirewalls

\* *projectID, and a second project that owns a network
instanceProject == "p"
HostProject == "host"

\* values of --network-project and --subnetwork-project
ProjectFlags == {"", instanceProject, HostProject}

\* values of --network, --subnetwork and --region
NetworkFlag == "default"
SubnetFlags == {"default", "sub"}
RegionFlag == "us-central1"

computeUrlPrefix == "https://www.googleapis.com/compute/v1/projects/"

\* computeUrlPrefix + project + "/global/networks/" + name
GlobalNetworkUrl(project, name) ==
  <<computeUrlPrefix, project, "/global/networks/", name>>

\* computeUrlPrefix + project + "/regions/" + region + "/subnetworks/" + name
RegionalSubnetUrl(project, region, name) ==
  <<computeUrlPrefix, project, "/regions/", region, "/subnetworks/", name>>

usingSharedVPCNever(netConfig) == FALSE
usingSharedVPC(netConfig) ==
  netConfig.SubnetProject # "" /\ netConfig.NetworkProject = ""

NewInstanceNetworkConfig(project, network, networkProject, subnet, subnetProject, region) ==
  LET netConfig == [Network |-> network, NetworkProject |-> networkProject,
                    Subnet |-> subnet, SubnetProject |-> subnetProject,
                    Region |-> region]
  IN IF usingSharedVPC(netConfig)
       THEN netConfig
       ELSE [netConfig EXCEPT
               !.NetworkProject = IF @ = "" THEN project ELSE @,
               !.SubnetProject = IF @ = "" THEN project ELSE @]

\* <<networkUrl, subnetUrl>>, the empty string being <<>>
ProjectNetworkUrls(netConfig, project) ==
  <<IF usingSharedVPC(netConfig)
      THEN <<>>
      ELSE GlobalNetworkUrl(netConfig.NetworkProject, netConfig.Network),
    GlobalNetworkUrl(netConfig.SubnetProject, netConfig.Subnet)>>

InstanceNetworkUrls(netConfig, project) ==
  <<IF usingSharedVPC(netConfig)
      THEN <<>>
      ELSE GlobalNetworkUrl(netConfig.SubnetProject, netConfig.Network),
    RegionalSubnetUrl(netConfig.SubnetProject, netConfig.Region,
                      netConfig.Subnet)>>

\* the (project, network URL) pairs a firewall list can qualify
RulePairs ==
  {<<q, GlobalNetworkUrl(q, n)>> :
     q \in {instanceProject, HostProject}, n \in SubnetFlags \cup {NetworkFlag}}

\* winRMIngressIsAllowed(gceService, project, url), by its result
RuleFound(project, url) == <<project, url>> \in nAllowed

\* the command the error message tells the user to run
RemediationCommand(project, url) ==
  <<"gcloud compute firewall-rules create --project=", project,
    " allow-winrm-ingress --allow=tcp:5986 --direction=INGRESS --network=",
    url>>

\* if url == "" { continue }
SkipUrlNever(url) == FALSE
SkipUrl(url) == url = <<>>

netRest ==
  <<orchVars, mainFlowVars, remoteVars, readyVars, passwordVars,
    taskFlowVars, bucketVars, ruleVars,
    exchangeVars>>

netFlags == <<nNetworkProject, nSubnetProject, nSubnet, nAllowed>>

InitNet ==
  /\ OrchIdle /\ MainFlowIdle /\ RemoteIdle /\ ReadyIdle /\ PasswordIdle
  /\ TaskIdle /\ BucketIdle /\ RuleIdle /\ ExchangeIdle
  /\ nNetworkProject \in ProjectFlags
  /\ nSubnetProject \in ProjectFlags
  /\ nSubnet \in SubnetFlags
  /\ nAllowed \in SUBSET RulePairs
  /\ npc = "resolve"
  /\ nCfg = NoCfg
  /\ nProjUrls = <<>>
  /\ nInstUrls = <<>>
  /\ nLog = <<>>
  /\ nRet = NoCheck

\* builder.NewInstanceNetworkConfig(projectID, network, networkProject, ...)
NetResolve ==
  /\ npc = "resolve"
  /\ nCfg' = NewInstanceNetworkConfig(instanceProject, NetworkFlag,
                                      nNetworkProject, nSubnet,
                                      nSubnetProject, RegionFlag)
  /\ npc' = "setup"
  /\ UNCHANGED <<netRest, netFlags, nProjUrls, nInstUrls, nLog, nRet>>

\* --skip-firewall-check: setupProjectForBuilder returns without the check
NetSkipCheck ==
  /\ npc = "setup"
  /\ npc' = "create"
  /\ UNCHANGED <<netRest, netFlags, nCfg, nProjUrls, nInstUrls, nLog, nRet>>

\* CheckProjectFirewalls up to its loop: newGCEService, ProjectNetworkUrls
NetCheckStart ==
  /\ npc = "setup"
  /\ \/ /\ nRet' = CheckRet(TRUE, "Failed to start GCE service for setup",
                            "", <<>>, <<>>)
        /\ npc' = "done"
        /\ UNCHANGED nProjUrls
     \/ /\ nProjUrls' = ProjectNetworkUrls(nCfg, instanceProject)
        /\ npc' = "loop"
        /\ UNCHANGED nRet
  /\ UNCHANGED <<netRest, netFlags, nCfg, nInstUrls, nLog>>

\* one round of the loop over []string{networkUrl, subnetUrl}
NetCheckUrl ==
  /\ npc = "loop"
  /\ Len(nLog) < 2
  /\ LET i == Len(nLog) + 1
         project == <<nCfg.NetworkProject, nCfg.SubnetProject>>[i]
         url == nProjUrls[i]
     IN IF SkipUrl(url)
          THEN /\ nLog' = Append(nLog, [project |-> project, url |-> url,
                                        tested |-> FALSE])
               /\ UNCHANGED <<npc, nRet>>
          ELSE /\ nLog' = Append(nLog, [project |-> project, url |-> url,
                                        tested |-> TRUE])
               /\ IF ~RuleFound(project, url)
                    THEN /\ nRet' = CheckRet(TRUE, "no firewall rule", project,
                                      url, RemediationCommand(project, url))
                         /\ npc' = "done"
                    ELSE UNCHANGED <<npc, nRet>>
  /\ UNCHANGED <<netRest, netFlags, nCfg, nProjUrls, nInstUrls>>

\* return nil
NetCheckReturn ==
  /\ npc = "loop"
  /\ Len(nLog) = 2
  /\ nRet' = CheckRet(TRUE, "nil", "", <<>>, <<>>)
  /\ npc' = "create"
  /\ UNCHANGED <<netRest, netFlags, nCfg, nProjUrls, nInstUrls, nLog>>

\* newInstance: InstanceNetworkUrls(bs.NetworkConfig, s.projectID)
NetInstanceUrls ==
  /\ npc = "create"
  /\ nInstUrls' = InstanceNetworkUrls(nCfg, instanceProject)
  /\ npc' = "done"
  /\ UNCHANGED <<netRest, netFlags, nCfg, nProjUrls, nLog, nRet>>

NextNet ==
  \/ NetResolve
  \/ NetSkipCheck
  \/ NetCheckStart
  \/ NetCheckUrl
  \/ NetCheckReturn
  \/ NetInstanceUrls

SpecNet == InitNet /\ [][NextNet]_vars

RelevantProjects ==
  ({instanceProject, nCfg.NetworkProject, nCfg.SubnetProject}) \ {""}

HasRule(q) == \E pair \in nAllowed : pair[1] = q

ConfiguredPairs ==
  (IF nCfg.NetworkProject = ""
     THEN <<>>
     ELSE << <<nCfg.NetworkProject,
               GlobalNetworkUrl(nCfg.NetworkProject, nCfg.Network)>> >>)
  \o << <<nCfg.SubnetProject,
          GlobalNetworkUrl(nCfg.SubnetProject, nCfg.Subnet)>> >>

C28_SubnetProjectIsNetworkProject ==
  (npc # "resolve" /\ nSubnetProject = "" /\ nNetworkProject # "") =>
    nCfg.SubnetProject = nCfg.NetworkProject

\* C34 as stated: when the configuration is not Shared VPC, the network URL
\* put on the instance at creation is the network URL the preflight tested.
C34_InstanceUrlIsCheckedUrl ==
  (nRet.done /\ nRet.err = "nil" /\ nInstUrls # <<>> /\ ~usingSharedVPC(nCfg)) =>
    /\ nInstUrls[1] = nProjUrls[1]
    /\ \E k \in DOMAIN nLog : nLog[k].tested /\ nLog[k].url = nInstUrls[1]

-----------------------------------------------------------------------------
\* winRMIngressIsAllowed: the test of one project's firewall list

\* number of rules in the firewall list
MaxRules == 1

\* values of networkUrl and of rule.Network
RuleUrls ==
  {GlobalNetworkUrl(instanceProject, n) : n \in SubnetFlags \cup {NetworkFlag}}

AnySource == "0.0.0.0/0"
WinRMPort == "5986"

\* values of rule.SourceRanges
SourceRangeLists ==
  {<<>>, <<AnySource>>, <<"10.0.0.0/8">>, <<AnySource, "10.0.0.0/8">>,
   <<"10.0.0.0/8", AnySource>>}

\* values of allowed.Ports
PortLists == {<<>>, <<WinRMPort>>, <<"80">>, <<"80", WinRMPort>>}

Allow(protocol, ports) == [IPProtocol |-> protocol, Ports |-> ports]

\* values of rule.Allowed
AllowedLists ==
  {<<Allow("tcp", ports)>> : ports \in PortLists}
    \cup {<<Allow("udp", <<WinRMPort>>)>>,
          <<Allow("udp", <<WinRMPort>>), Allow("tcp", <<WinRMPort>>)>>}

\* the compute.Firewall values of the list
Rules ==
  [Network : RuleUrls, Direction : {"INGRESS", "EGRESS"},
   SourceRanges : SourceRangeLists, Disabled : BOOLEAN,
   Allowed : AllowedLists]

RuleLists == UNION {[1..n -> Rules] : n \in 0..MaxRules}

\* for _, port := range allowed.Ports { if port == "5986" { return true } }
RECURSIVE PortFound(_)
PortFound(ports) ==
  IF ports = <<>>
    THEN FALSE
    ELSE Head(ports) = WinRMPort \/ PortFound(Tail(ports))

\* the loop over rule.Allowed: "true" when it returns true, "panic" when
\* rule.SourceRanges[0] is out of range, "" when the loop ends
RECURSIVE ScanAllowed(_, _, _)
ScanAllowed(rule, alloweds, networkUrl) ==
  IF alloweds = <<>>
    THEN ""
    ELSE LET allowed == Head(alloweds)
         IN IF /\ rule.Network = networkUrl
               /\ rule.Direction = "INGRESS"
               /\ allowed.IPProtocol = "tcp"
              THEN IF rule.SourceRanges = <<>>
                     THEN "panic"
                     ELSE IF /\ rule.SourceRanges[1] = AnySource
                             /\ ~rule.Disabled
                             /\ PortFound(allowed.Ports)
                            THEN "true"
                            ELSE ScanAllowed(rule, Tail(alloweds), networkUrl)
              ELSE ScanAllowed(rule, Tail(alloweds), networkUrl)

\* the loop over firewalls.Items, and the return false after it
RECURSIVE ScanRules(_, _)
ScanRules(items, networkUrl) ==
  IF items = <<>>
    THEN "false"
    ELSE LET found == ScanAllowed(Head(items), Head(items).Allowed, networkUrl)
         IN IF found = ""
              THEN ScanRules(Tail(items), networkUrl)
              ELSE found

ruleRest ==
  <<orchVars, mainFlowVars, remoteVars, readyVars, passwordVars,
    taskFlowVars, bucketVars, netVars,
    exchangeVars>>

InitRule ==
  /\ OrchIdle /\ MainFlowIdle /\ RemoteIdle /\ ReadyIdle /\ PasswordIdle
  /\ TaskIdle /\ BucketIdle /\ NetIdle /\ ExchangeIdle
  /\ fUrl \in RuleUrls
  /\ fListOk \in BOOLEAN
  /\ fRules \in RuleLists
  /\ fpc = "list"
  /\ fResult = ""

\* firewalls, err := service.Firewalls.List(networkProject).Do()
RuleList ==
  /\ fpc = "list"
  /\ IF fListOk
       THEN fpc' = "scan" /\ UNCHANGED fResult
       ELSE fpc' = "done" /\ fResult' = "false"
  /\ UNCHANGED <<ruleRest, fUrl, fListOk, fRules>>

\* the two loops
RuleScan ==
  /\ fpc = "scan"
  /\ fResult' = ScanRules(fRules, fUrl)
  /\ fpc' = "done"
  /\ UNCHANGED <<ruleRest, fUrl, fListOk, fRules>>

NextRule ==
  \/ RuleList
  \/ RuleScan

SpecRule == InitRule /\ [][NextRule]_vars

\* an enabled ingress rule of the network that allows tcp:5986 and has
\* 0.0.0.0/0 among its source ranges
Qualifies(rule, networkUrl) ==
  /\ ~rule.Disabled
  /\ rule.Direction = "INGRESS"
  /\ rule.Network = networkUrl
  /\ \E k \in DOMAIN rule.SourceRanges : rule.SourceRanges[k] = AnySource
  /\ \E a \in DOMAIN rule.Allowed :
       /\ rule.Allowed[a].IPProtocol = "tcp"
       /\ \E p \in DOMAIN rule.Allowed[a].Ports :
            rule.Allowed[a].Ports[p] = WinRMPort

\* C24 as stated: the test returns true exactly when the list was read and
\* holds a qualifying rule for the network URL, and false when the list
\* cannot be read.
C24_TrueIffQualifyingRule ==
  fpc = "done" =>
    /\ fResult = "true" <=>
         (fListOk /\ \E k \in DOMAIN fRules : Qualifies(fRules[k], fUrl))
    /\ fResult \in {"true", "false"}
    /\ ~fListOk => fResult = "false"

\* C37 as stated: whatever rules the list holds, rules without source ranges
\* included, the test ends with true or false.
C37_AlwaysABoolean ==
  fpc = "done" => fResult \in {"true", "false"}

-----------------------------------------------------------------------------
\* resetPasswordAndPopulateRemoteServer: the metadata write, the wait for its
\* operation, the password, the IP address and the handle

\* most metadata items an instance holds before its first exchange
MaxMetadata == 2

\* exchanges made on one instance, one per run that uses it
MaxExchanges == 2

\* the 300 s of waitForComputeOperation, in sleeps of 1 s
OpDeadline == 2

\* longest ZoneOperations.Get call, in sleeps of 1 s
MaxPollTicks == 1

WindowsKeys == "windows-keys"
MetaKeys == {"windows-startup-script-ps1", WindowsKeys, "enable-oslogin"}

Item(key, value) == [Key |-> key, Value |-> value]

\* the metadata of an instance: GCE keeps the keys distinct
MetadataLists ==
  {items \in UNION {[1..n -> {Item(k, 0) : k \in MetaKeys}] : n \in 0..MaxMetadata} :
     \A i, j \in DOMAIN items : i # j => items[i].Key # items[j].Key}

AccessConfig(name, natIP) == [Name |-> name, NatIP |-> natIP]

\* values of instance.NetworkInterfaces: one interface, with no access
\* config, with the one newInstance asks for, with or without an address,
\* or with one of another name
InterfaceLists ==
  {<<[NetworkIP |-> "10.128.0.2", AccessConfigs |-> acs]>> :
     acs \in {<<>>, <<AccessConfig("External NAT", "34.1.2.3")>>,
              <<AccessConfig("External NAT", "")>>,
              <<AccessConfig("external-nat", "34.1.2.3")>>}}

\* results of one ZoneOperations.Get call
OpResults == {"RUNNING", "DONE", "DONE with errors", "Get failed"}

\* the loop over s.instance.Metadata.Items: found
HasWindowsKeysNever(items) == FALSE
HasWindowsKeys(items) == \E k \in DOMAIN items : items[k].Key = WindowsKeys

\* mdi.Value = &dstring on the first item of the key, or the append
SetWindowsKeys(items, dstring) ==
  IF HasWindowsKeys(items)
    THEN LET first == CHOOSE k \in DOMAIN items :
                        /\ items[k].Key = WindowsKeys
                        /\ \A j \in 1..(k - 1) : items[j].Key # WindowsKeys
         IN [items EXCEPT ![first].Value = dstring]
    ELSE Append(items, Item(WindowsKeys, dstring))

\* what waitForComputeOperation does with the result of a poll: "" to sleep
\* and poll again
OpVerdictDoneIsSuccess(res) ==
  CASE res = "Get failed" -> E("Failed to update operation status", 0)
    [] res = "DONE" -> Nil
    [] res = "DONE with errors" -> Nil
    [] OTHER -> E("", 0)
OpVerdict(res) ==
  CASE res = "Get failed" -> E("Failed to update operation status", 0)
    [] res = "DONE" -> Nil
    [] res = "DONE with errors" -> E("completed with errors", 0)
    [] OTHER -> E("", 0)

\* the loop of getIP over ni.AccessConfigs: [found, ip]
RECURSIVE ExternalNatIP(_)
ExternalNatIP(acs) ==
  IF acs = <<>>
    THEN [found |-> FALSE, ip |-> ""]
    ELSE IF Head(acs).Name = "External NAT"
           THEN [found |-> TRUE, ip |-> Head(acs).NatIP]
           ELSE ExternalNatIP(Tail(acs))

\* the loop of getIP over s.instance.NetworkInterfaces: [ip, err]
RECURSIVE getIP(_, _)
getIP(useInternalIP, nis) ==
  IF nis = <<>>
    THEN [ip |-> "", err |-> E("Could not get external NAT IP from list", 0)]
    ELSE IF useInternalIP
           THEN [ip |-> Head(nis).NetworkIP, err |-> Nil]
           ELSE LET nat == ExternalNatIP(Head(nis).AccessConfigs)
                IN IF nat.found
                     THEN [ip |-> nat.ip, err |-> Nil]
                     ELSE getIP(useInternalIP, Tail(nis))

exchangeRest ==
  <<orchVars, mainFlowVars, remoteVars, readyVars, passwordVars,
    taskFlowVars, bucketVars, netVars, ruleVars>>

InitExchange ==
  /\ OrchIdle /\ MainFlowIdle /\ RemoteIdle /\ ReadyIdle /\ PasswordIdle
  /\ TaskIdle /\ BucketIdle /\ NetIdle /\ RuleIdle
  /\ xMeta \in MetadataLists
  /\ xLocal = xMeta
  /\ xInst \in InterfaceLists
  /\ xInternal \in BOOLEAN
  /\ xReq = 1
  /\ xpc = "edit"
  /\ xNow = 0
  /\ xPolls = <<>>
  /\ xOpRet = NoRet
  /\ xPassword = ""
  /\ xHandle = NoHandle
  /\ xRet = NoRet

\* return err
ExchangeReturn(err) ==
  /\ xRet' = [done |-> TRUE, err |-> err]
  /\ xpc' = "done"

\* rsa.GenerateKey, json.Marshal and the write into s.instance.Metadata.Items
ExchangeEdit ==
  /\ xpc = "edit"
  /\ \/ /\ ExchangeReturn(E("Failed to generate random RSA key", 0))
        /\ UNCHANGED xLocal
     \/ /\ xLocal' = SetWindowsKeys(xLocal, xReq)
        /\ xpc' = "submit"
        /\ UNCHANGED xRet
  /\ UNCHANGED <<exchangeRest, xMeta, xInst, xInternal, xReq, xNow, xPolls,
                 xOpRet, xPassword, xHandle>>

\* s.service.Instances.SetMetadata(...).Do()
ExchangeSetMetadata ==
  /\ xpc = "submit"
  /\ \/ /\ ExchangeReturn(E("Failed to set instance metadata", 0))
        /\ UNCHANGED xMeta
     \/ /\ xMeta' = xLocal
        /\ xpc' = "op.check"
        /\ UNCHANGED xRet
  /\ UNCHANGED <<exchangeRest, xLocal, xInst, xInternal, xReq, xNow, xPolls,
                 xOpRet, xPassword, xHandle>>

\* for time.Now().Before(timeout), and the return after the loop
OpCheckDeadline ==
  /\ xpc = "op.check"
  /\ IF xNow < OpDeadline
       THEN xpc' = "op.get" /\ UNCHANGED xOpRet
       ELSE /\ xOpRet' = [done |-> TRUE, err |-> E("timed out", 0)]
            /\ xpc' = "op.returned"
  /\ UNCHANGED <<exchangeRest, xMeta, xLocal, xInst, xInternal, xReq, xNow,
                 xPolls, xPassword, xHandle, xRet>>

\* s.service.ZoneOperations.Get(...).Do() and what the loop body does with it
OpGet ==
  /\ xpc = "op.get"
  /\ \E res \in OpResults, d \in 0..MaxPollTicks :
       /\ xPolls' = Append(xPolls, [at |-> xNow, res |-> res])
       /\ xNow' = IF xNow + d > OpDeadline THEN OpDeadline ELSE xNow + d
       /\ IF OpVerdict(res) = E("", 0)
            THEN xpc' = "op.sleep" /\ UNCHANGED xOpRet
            ELSE /\ xOpRet' = [done |-> TRUE, err |-> OpVerdict(res)]
                 /\ xpc' = "op.returned"
  /\ UNCHANGED <<exchangeRest, xMeta, xLocal, xInst, xInternal, xReq,
                 xPassword, xHandle, xRet>>

\* time.Now() after time.Sleep(1 * time.Second); no later time than the
\* deadline is told apart from it
AfterSleep(now) == IF now < OpDeadline THEN now + 1 ELSE now

\* time.Sleep(1 * time.Second)
OpSleep ==
  /\ xpc = "op.sleep"
  /\ xNow' = AfterSleep(xNow)
  /\ xpc' = "op.check"
  /\ UNCHANGED <<exchangeRest, xMeta, xLocal, xInst, xInternal, xReq, xPolls,
                 xOpRet, xPassword, xHandle, xRet>>

\* err = s.waitForComputeOperation(op); if err != nil { return "", err }
ExchangeAfterOp ==
  /\ xpc = "op.returned"
  /\ IF xOpRet.err = Nil
       THEN xpc' = "password" /\ UNCHANGED xRet
       ELSE ExchangeReturn(xOpRet.err)
  /\ UNCHANGED <<exchangeRest, xMeta, xLocal, xInst, xInternal, xReq, xNow,
                 xPolls, xOpRet, xPassword, xHandle>>

\* the rest of resetWindowsPassword: the decrypted password, or the error of
\* the poll loop
ExchangePassword ==
  /\ xpc = "password"
  /\ \/ /\ \E kind \in {"Could not retrieve password before timeout",
                        "Unable to get serial port output",
                        "Cannot decrypt password response"} :
             ExchangeReturn(E(kind, 0))
        /\ UNCHANGED xPassword
     \/ /\ xPassword' = "password"
        /\ xpc' = "refresh"
        /\ UNCHANGED xRet
  /\ UNCHANGED <<exchangeRest, xMeta, xLocal, xInst, xInternal, xReq, xNow,
                 xPolls, xOpRet, xHandle>>

\* getIP: err := s.refreshInstance(), logged only
ExchangeRefresh ==
  /\ xpc = "refresh"
  /\ \/ UNCHANGED xInst
     \/ xInst' \in InterfaceLists
  /\ xpc' = "populate"
  /\ UNCHANGED <<exchangeRest, xMeta, xLocal, xInternal, xReq, xNow, xPolls,
                 xOpRet, xPassword, xHandle, xRet>>

\* the loops of getIP, and s.RemoteWindowsServer = RemoteWindowsServer{...}
ExchangePopulate ==
  /\ xpc = "populate"
  /\ LET got == getIP(xInternal, xInst)
     IN IF got.err # Nil
          THEN ExchangeReturn(got.err) /\ UNCHANGED xHandle
          ELSE /\ xHandle' = [Hostname |-> got.ip, Password |-> xPassword]
               /\ ExchangeReturn(Nil)
  /\ UNCHANGED <<exchangeRest, xMeta, xLocal, xInst, xInternal, xReq, xNow,
                 xPolls, xOpRet, xPassword>>

\* a later run finds the instance and makes its own exchange on it:
\* existingInstance reads the instance anew
ExchangeAgain ==
  /\ xpc = "done"
  /\ xReq < MaxExchanges
  /\ xReq' = xReq + 1
  /\ xLocal' = xMeta
  /\ xInst' \in InterfaceLists
  /\ xpc' = "edit"
  /\ xNow' = 0
  /\ xPolls' = <<>>
  /\ xOpRet' = NoRet
  /\ xPassword' = ""
  /\ xHandle' = NoHandle
  /\ xRet' = NoRet
  /\ UNCHANGED <<exchangeRest, xMeta, xInternal>>

NextExchange ==
  \/ ExchangeEdit
  \/ ExchangeSetMetadata
  \/ OpCheckDeadline
  \/ OpGet
  \/ OpSleep
  \/ ExchangeAfterOp
  \/ ExchangePassword
  \/ ExchangeRefresh
  \/ ExchangePopulate
  \/ ExchangeAgain

SpecExchange == InitExchange /\ [][NextExchange]_vars

UnderKey(items) == {k \in DOMAIN items : items[k].Key = WindowsKeys}

\* C31: the step that submits the key leaves exactly one item under
\* windows-keys, holding the new request; an item of that key is overwritten
\* where it stands, an item is appended only when there was none, and every
\* other item is as it was. This holds on each exchange made on the instance.
C31_OneItemUnderKey ==
  [][(xpc = "submit" /\ xpc' = "op.check") =>
       /\ Cardinality(UnderKey(xMeta')) = 1
       /\ \A k \in UnderKey(xMeta') : xMeta'[k].Value = xReq
       /\ IF UnderKey(xMeta) # {}
            THEN /\ Len(xMeta') = Len(xMeta)
                 /\ UnderKey(xMeta') = UnderKey(xMeta)
            ELSE /\ Len(xMeta') = Len(xMeta) + 1
                 /\ UnderKey(xMeta') = {Len(xMeta')}
       /\ \A k \in DOMAIN xMeta \ UnderKey(xMeta) : xMeta'[k] = xMeta[k]]_vars

C31_Witness ==
  /\ xReq = 2
  /\ xpc = "op.check"
  /\ Len(xMeta) = 2
  /\ UnderKey(xMeta) = {1}
  /\ xMeta[1].Value = 2

\* C32 as stated: a call that returns nil has filled the handle with a
\* hostname and a password that are not empty, and a call that returns an
\* error has not filled the handle.
C32_HandleHasHostAndPassword ==
  xRet.done =>
    IF xRet.err = Nil
      THEN xHandle.Hostname # "" /\ xHandle.Password # ""
      ELSE xHandle = NoHandle

\* C33: waitForComputeOperation returns nil exactly when its last poll began
\* before the deadline and found the operation DONE without errors; it
\* returns an error when the poll found it DONE with errors, when the poll
\* failed, and when the deadline passed with the operation not DONE.
C33_OperationWait ==
  xOpRet.done =>
    LET last == xPolls[Len(xPolls)]
    IN /\ xOpRet.err = Nil <=>
            (xPolls # <<>> /\ last.res = "DONE" /\ last.at < OpDeadline)
       /\ xOpRet.err # Nil =>
            \/ /\ xPolls # <<>> /\ last.res = "DONE with errors"
               /\ xOpRet.err = E("completed with errors", 0)
            \/ /\ xPolls # <<>> /\ last.res = "Get failed"
               /\ xOpRet.err = E("Failed to update operation status", 0)
            \/ /\ xPolls = <<>> \/ last.res = "RUNNING"
               /\ xNow >= OpDeadline
               /\ xOpRet.err = E("timed out", 0)

C33_Witness ==
  /\ xOpRet.done
  /\ xOpRet.err = Nil
  /\ Len(xPolls) = 2
  /\ xPolls[1].res = "RUNNING"
  /\ xNow >= OpDeadline

-----------------------------------------------------------------------------
\* termination: the run of process() and the three polling loops, each under
\* weak fairness, since every goroutine keeps running and every external call
\* returns

\* versions built by the runs whose termination is checked
MaxLivePicked == 1

InitLive ==
  \/ Init /\ NumPicked <= MaxLivePicked
  \/ InitReady
  \/ InitPassword
  \/ InitExchange

NextLive ==
  \/ Next
  \/ NextReady
  \/ NextPassword
  \/ NextExchange

SpecLive ==
  /\ InitLive
  /\ [][NextLive]_vars
  /\ WF_vars(Next)
  /\ WF_vars(NextReady)
  /\ WF_vars(NextPassword)
  /\ WF_vars(NextExchange)

=============================================================================
